---- MODULE Spec2Model ----
(***************************************************************************)
(* Telegram -> FCM bridge: the signal parser (signal_parser.py, config.py, *)
(* utils.py), the FCM fan-out (fcm_sender.py), the session statistics      *)
(* (statistics.py) and the reconnecting listener (telegram_client.py).     *)
(*                                                                         *)
(* A text is a sequence of one-character strings.  An optional value is a  *)
(* set with no element (None) or one element.                              *)
(***************************************************************************)
EXTENDS Integers, Sequences, FiniteSets, TLC

VARIABLES
    pc,            \* parse_signal: "call" before the call, "done" after it returned,
                   \* "raised" after it raised
    message_text,  \* parse_signal: the raw text argument
    message_time,  \* parse_signal: the optional arrival instant (UTC)
    parsed,        \* parse_signal: the returned value ({} is None)
    send_pc,       \* send_signal_to_tokens: "idle" | "loop" | "raised" | "returned"
    signal_data,   \* send_signal_to_tokens: the directive argument
    tokens,        \* send_signal_to_tokens: the recipient list argument
    port,          \* what messaging.send does for each entry of tokens in this call
    idx,           \* position of the for loop in tokens
    success_count, failed_count, user_success, admin_success,
    sent,          \* the messaging.send invocations of this call, in order
    fcm_data,      \* send_signal_to_tokens: the local fcm_data ({} before line 51)
    messages,      \* the messaging.Message objects built in this call, in order
    result,        \* the returned dict ({} while the call runs)
    stats,         \* statistics.stats, the process-wide Statistics instance
    stats_before,  \* stats as it was when the running call started
    calls,         \* the completed calls: inputs, stats before and after, result
    sup_pc,        \* listen_telegram_signals: "connect" | "subscribe" | "listen" |
                   \* "flood_sleep" | "backoff" | "exited"
    retry_count,   \* listen_telegram_signals: retry_count
    retry_delay,   \* listen_telegram_signals: retry_delay, in 1/128 second
    client,        \* listen_telegram_signals: client is "none", or "open" / "closed"
                   \* as client.is_connected() answers
    attempts,      \* the client.start() calls made so far
    failed_run,    \* the attempts that failed in a row, since one last reached
                   \* run_until_disconnected
    last_failure,  \* the last exception raised by the Telegram client
    waited,        \* the time slept since last_failure, in 1/128 second
    slept,         \* the asyncio.sleep calls since client.start() last returned
    summaries,     \* the stats.print_summary() calls made so far
    exit_cause,    \* why the while loop was left ("none" while it runs)
    store,         \* Firestore: the documents of whitelist_users and admin_users, in
                   \* the order a query streams them, the collections whose
                   \* query raises, and whether self.db is set (initialize()
                   \* returned True)
    mode,          \* the arguments user_only, admin_only, admin_role_filter
    fetched,       \* the list get_all_fcm_tokens_combined returned ({} before a call)
    live_handlers, \* the clients (numbered by attempt) that are connected and have
                   \* handle_new_message registered
    inbox,         \* the updates received and not yet handled, each with the client
                   \* whose handler will run
    arrived,       \* the channel messages that arrived so far
    handled,       \* per message, the runs of handle_new_message made for it
    last_run,      \* what the last run of handle_new_message did
    ledger         \* the statistics as the sum of what each fan-out logged

parserVars == <<pc, message_text, message_time, parsed>>

senderVars == <<send_pc, signal_data, tokens, port, idx, success_count, failed_count,
                user_success, admin_success, sent, fcm_data, messages, result, stats,
                stats_before, calls>>

supVars == <<sup_pc, retry_count, retry_delay, client, attempts, failed_run,
             last_failure, waited, slept, summaries, exit_cause>>

fetchVars == <<store, mode, fetched>>

hookVars == <<live_handlers, inbox>>

runVars == <<arrived, handled, last_run, ledger>>

vars == <<parserVars, senderVars, supVars, fetchVars, hookVars, runVars>>

(***************************************************************************)
(* Bounds of the input sets.                                               *)
(***************************************************************************)
MaxGap == 2

MaxTokens == 3

MaxCalls == 2
\* the most client.start() calls of one run of listen_telegram_signals
MaxAttempts == 12
\* the most channel messages of one run of the listener
MaxMessages == 2
\* the most clients created while messages are followed
MaxClients == 2
\* the longest recipient list in which a fan-out is interrupted
MaxFanOut == 3

(***************************************************************************)
(* Characters: str.strip, str.upper, and the classes \d and \s of re.      *)
(***************************************************************************)
IsDigit(c) == c \in {"0", "1", "2", "3", "4", "5", "6", "7", "8", "9"}

IsSpace(c) == c \in {" ", "\t", "\n"}

DigitVal(c) ==
    CASE c = "0" -> 0 [] c = "1" -> 1 [] c = "2" -> 2 [] c = "3" -> 3
      [] c = "4" -> 4 [] c = "5" -> 5 [] c = "6" -> 6 [] c = "7" -> 7
      [] c = "8" -> 8 [] c = "9" -> 9

\* str.upper on one character of the modelled alphabet
UpperChar(c) ==
    CASE c = "s" -> "S" [] c = "b" -> "B" [] c = "x" -> "X" [] OTHER -> c

\* the case left as it is
upper_Unchanged(t) == t

upper(t) == [k \in 1..Len(t) |-> UpperChar(t[k])]

\* str.strip: drop the leading and the trailing whitespace
strip(t) ==
    LET inner == {k \in 1..Len(t) : ~IsSpace(t[k])}
    IN  IF inner = {} THEN <<>>
        ELSE LET lo == CHOOSE k \in inner : \A j \in inner : k <= j
                 hi == CHOOSE k \in inner : \A j \in inner : k >= j
             IN  SubSeq(t, lo, hi)

\* the text as parse_signal matches it: text = message_text.strip().upper()
Normalize(t) == upper(strip(t))

(***************************************************************************)
(* The patterns of SIGNAL_PATTERNS.  Positions are 1-based; a match is a   *)
(* record with ok = TRUE, the three groups and the position of its last    *)
(* character.                                                              *)
(***************************************************************************)
NoMatch == [ok |-> FALSE, g1 |-> 0, g2 |-> 0, g3 |-> "", last |-> 0]

\* greedy \s*: the number of whitespace characters of t from position i on
SpaceRun(t, i) ==
    CHOOSE n \in 0..Len(t) :
        /\ \A k \in i..(i + n - 1) : k <= Len(t) /\ IsSpace(t[k])
        /\ (i + n > Len(t) \/ ~IsSpace(t[i + n]))

\* [SB] under re.IGNORECASE
IsTrendLetter(c) == c \in {"S", "B", "s", "b"}

\* (\d{1,2})[:\.]\s*(\d{2})\s+([SB]) anchored at position i; strict drops the \s*
MatchAt(t, i, strict) ==
    LET n  == Len(t)
        \* \d{1,2} is greedy; with two digits taken, backing off to one digit
        \* leaves a digit where [:\.] is required, so the count is decided here
        nd == IF i + 1 <= n /\ IsDigit(t[i]) /\ IsDigit(t[i + 1]) THEN 2
              ELSE IF i <= n /\ IsDigit(t[i]) THEN 1 ELSE 0
        ps == i + nd
        gA == IF strict THEN 0 ELSE SpaceRun(t, ps + 1)
        pm == ps + 1 + gA
        gB == SpaceRun(t, pm + 2)
        pl == pm + 2 + gB
    IN  IF /\ nd >= 1
           /\ ps <= n /\ t[ps] \in {":", "."}
           /\ pm + 1 <= n /\ IsDigit(t[pm]) /\ IsDigit(t[pm + 1])
           /\ gB >= 1
           /\ pl <= n /\ IsTrendLetter(t[pl])
        THEN [ok   |-> TRUE,
              g1   |-> IF nd = 2 THEN 10 * DigitVal(t[i]) + DigitVal(t[i + 1])
                       ELSE DigitVal(t[i]),
              g2   |-> 10 * DigitVal(t[pm]) + DigitVal(t[pm + 1]),
              g3   |-> t[pl],
              last |-> pl]
        ELSE NoMatch

\* pattern.search(text) from position i on: the leftmost match
SearchFrom(t, i, strict) ==
    LET hits == {k \in i..Len(t) : MatchAt(t, k, strict).ok}
    IN  IF hits = {} THEN NoMatch
        ELSE MatchAt(t, CHOOSE k \in hits : \A j \in hits : k <= j, strict)

RECURSIVE CountFrom(_, _)
\* len(pattern.findall(text)): non-overlapping matches, scanned left to right
CountFrom(t, i) ==
    LET m == SearchFrom(t, i, FALSE)
    IN  IF m.ok THEN 1 + CountFrom(t, m.last + 1) ELSE 0

\* only the first occurrence is looked for
findall_FirstOnly(t) == IF SearchFrom(t, 1, FALSE).ok THEN 1 ELSE 0

time_with_trend_findall(t) == CountFrom(t, 1)

time_with_trend(t) == SearchFrom(t, 1, FALSE)

time_with_trend_strict(t) == SearchFrom(t, 1, TRUE)

\* ^([SB])$ with .match: $ also matches before one trailing newline
simple_trend(t) ==
    IF /\ Len(t) >= 1
       /\ IsTrendLetter(t[1])
       /\ (Len(t) = 1 \/ (Len(t) = 2 /\ t[2] = "\n"))
    THEN [ok |-> TRUE, g1 |-> t[1]]
    ELSE [ok |-> FALSE, g1 |-> ""]

(***************************************************************************)
(* utils.utc_to_wib: the instant in UTC+7.  An instant is its wall clock   *)
(* [hour, minute, second]; the date is not tracked.                        *)
(***************************************************************************)
utc_to_wib(utc_dt) ==
    [hour   |-> (utc_dt.hour + 7) % 24,
     minute |-> utc_dt.minute,
     second |-> utc_dt.second]

(***************************************************************************)
(* signal_parser.parse_signal                                              *)
(***************************************************************************)
Directive(trend, hour, minute, second, original, auto) ==
    [trend            |-> trend,
     has_time         |-> TRUE,
     hour             |-> hour,
     minute           |-> minute,
     second           |-> second,
     original_message |-> original,
     auto_time_added  |-> auto]

TrendOf(signal) == IF signal = "S" THEN "put" ELSE "call"

\* the hour checked against 24 instead of 23
ExplicitBranch_Hour24(m, raw, current_wib) ==
    IF ~(0 <= m.g1 /\ m.g1 <= 24 /\ 0 <= m.g2 /\ m.g2 <= 59)
    THEN {}
    ELSE {Directive(TrendOf(m.g3), m.g1, m.g2,
                    IF current_wib # {}
                    THEN (CHOOSE w \in current_wib : TRUE).second ELSE 0,
                    raw, FALSE)}

\* lines 30-61: the branch taken when a time + trend match was found
ExplicitBranch(m, raw, current_wib) ==
    IF ~(0 <= m.g1 /\ m.g1 <= 23 /\ 0 <= m.g2 /\ m.g2 <= 59)
    THEN {}
    ELSE {Directive(TrendOf(m.g3), m.g1, m.g2,
                    IF current_wib # {}
                    THEN (CHOOSE w \in current_wib : TRUE).second ELSE 0,
                    raw, FALSE)}

\* the threshold taken strictly: exactly 30 seconds remaining skips a minute
SmartTime_StrictThreshold(w) ==
    LET seconds_until_next_minute == 60 - w.second
    IN  IF seconds_until_next_minute > 30
        THEN [hour   |-> (w.hour + (IF w.minute = 59 THEN 1 ELSE 0)) % 24,
              minute |-> (w.minute + 1) % 60,
              second |-> 0]
        ELSE [hour   |-> (w.hour + ((w.minute + 2) \div 60)) % 24,
              minute |-> (w.minute + 2) % 60,
              second |-> 0]

\* the hour carry of the first branch reused in the second
SmartTime_CarryAt59Only(w) ==
    LET seconds_until_next_minute == 60 - w.second
    IN  IF seconds_until_next_minute >= 30
        THEN [hour   |-> (w.hour + (IF w.minute = 59 THEN 1 ELSE 0)) % 24,
              minute |-> (w.minute + 1) % 60,
              second |-> 0]
        ELSE [hour   |-> (w.hour + (IF w.minute = 59 THEN 1 ELSE 0)) % 24,
              minute |-> (w.minute + 2) % 60,
              second |-> 0]

\* the hour is not wrapped at midnight
SmartTime_NoDayWrap(w) ==
    LET seconds_until_next_minute == 60 - w.second
    IN  IF seconds_until_next_minute >= 30
        THEN [hour   |-> w.hour + (IF w.minute = 59 THEN 1 ELSE 0),
              minute |-> (w.minute + 1) % 60,
              second |-> 0]
        ELSE [hour   |-> w.hour + ((w.minute + 2) \div 60),
              minute |-> (w.minute + 2) % 60,
              second |-> 0]

\* an arrival exactly on a minute boundary is scheduled at that same minute
SmartTime_OnBoundary(w) ==
    IF w.second = 0
    THEN [hour |-> w.hour, minute |-> w.minute, second |-> 0]
    ELSE IF 60 - w.second >= 30
    THEN [hour   |-> (w.hour + (IF w.minute = 59 THEN 1 ELSE 0)) % 24,
          minute |-> (w.minute + 1) % 60,
          second |-> 0]
    ELSE [hour   |-> (w.hour + ((w.minute + 2) \div 60)) % 24,
          minute |-> (w.minute + 2) % 60,
          second |-> 0]

\* lines 69-92: the execution time of a bare trend received at local time w
SmartTime(w) ==
    LET seconds_until_next_minute == 60 - w.second
    IN  IF seconds_until_next_minute >= 30
        THEN [hour   |-> (w.hour + (IF w.minute = 59 THEN 1 ELSE 0)) % 24,
              minute |-> (w.minute + 1) % 60,
              second |-> 0]
        ELSE [hour   |-> (w.hour + ((w.minute + 2) \div 60)) % 24,
              minute |-> (w.minute + 2) % 60,
              second |-> 0]

\* a bare trend without an arrival instant is scheduled at 00:00:00
SimpleBranch_DefaultTime(s, raw, current_wib) ==
    IF current_wib = {} THEN {Directive(TrendOf(s.g1), 0, 0, 0, raw, TRUE)}
    ELSE LET e == SmartTime(CHOOSE w \in current_wib : TRUE)
         IN  {Directive(TrendOf(s.g1), e.hour, e.minute, e.second, raw, TRUE)}

\* lines 63-105: the bare-trend branch
SimpleBranch(s, raw, current_wib) ==
    IF current_wib = {} THEN {}
    ELSE LET e == SmartTime(CHOOSE w \in current_wib : TRUE)
         IN  {Directive(TrendOf(s.g1), e.hour, e.minute, e.second, raw, TRUE)}

parse_signal(raw, msg_time) ==
    LET text        == Normalize(raw)
        current_wib == {utc_to_wib(d) : d \in msg_time}
        first       == time_with_trend(text)
        match       == IF first.ok THEN first ELSE time_with_trend_strict(text)
        simple      == simple_trend(text)
    IN  IF time_with_trend_findall(text) > 1 THEN {}
        ELSE IF match.ok THEN ExplicitBranch(match, raw, current_wib)
        ELSE IF simple.ok THEN SimpleBranch(simple, raw, current_wib)
        ELSE {}

\* line 48: current_wib.second is evaluated only under "if current_wib"
ExplicitReadsClock(current_wib) == current_wib # {}

\* the bare-trend branch reads current_wib.second without looking at current_wib
SimpleReadsClock_Unguarded(current_wib) == TRUE

\* lines 69-71: current_wib.second is evaluated only under "if current_wib:"
SimpleReadsClock(current_wib) == current_wib # {}

\* parse_signal raises: the attribute .second is read from None (the other
\* operations of lines 13-108 are str.strip, str.upper, the pattern searches,
\* int() of a group of \d characters, comparisons and formatting of integers)
parse_signal_raises(raw, msg_time) ==
    LET text        == Normalize(raw)
        current_wib == {utc_to_wib(d) : d \in msg_time}
        first       == time_with_trend(text)
        match       == IF first.ok THEN first ELSE time_with_trend_strict(text)
        simple      == simple_trend(text)
    IN  IF time_with_trend_findall(text) > 1 THEN FALSE
        ELSE IF match.ok
             THEN /\ match.g1 <= 23 /\ match.g2 <= 59
                  /\ ExplicitReadsClock(current_wib) /\ current_wib = {}
        ELSE IF simple.ok
             THEN SimpleReadsClock(current_wib) /\ current_wib = {}
        ELSE FALSE

(***************************************************************************)
(* statistics.Statistics                                                   *)
(***************************************************************************)
\* Statistics.__init__ (start_time, a clock reading, is not tracked)
NewStatistics ==
    [total_signals    |-> 0,
     successful_sends |-> 0,
     failed_sends     |-> 0,
     signals_by_trend |-> [t \in {"call", "put"} |-> 0],
     devices_reached  |-> {},
     user_sends       |-> 0,
     admin_sends      |-> 0]

\* "admin" in user_type.lower(), on the class strings the recipient store
\* builds: 'user' and f'admin ({role})'
IsAdminType(user_type) == user_type \in {"admin (admin)", "admin (super_admin)"}

\* a hidden deduplication: a success is only counted for a new identifier
log_signal_Dedup(st, trend, success, identifier, user_type) ==
    IF success /\ identifier \in st.devices_reached THEN st
    ELSE [st EXCEPT
            !.total_signals    = @ + 1,
            !.successful_sends = IF success THEN @ + 1 ELSE @,
            !.failed_sends     = IF success THEN @ ELSE @ + 1,
            !.devices_reached  = IF success /\ identifier # "" THEN @ \cup {identifier} ELSE @,
            !.admin_sends      = IF success /\ IsAdminType(user_type) THEN @ + 1 ELSE @,
            !.user_sends       = IF success /\ ~IsAdminType(user_type) THEN @ + 1 ELSE @,
            !.signals_by_trend = IF trend \in DOMAIN @
                                 THEN [@ EXCEPT ![trend] = @ + 1] ELSE @]

\* a failure that is not counted
log_signal_DropFailure(st, trend, success, identifier, user_type) ==
    IF ~success THEN [st EXCEPT !.total_signals = @ + 1]
    ELSE [st EXCEPT
            !.total_signals    = @ + 1,
            !.successful_sends = @ + 1,
            !.devices_reached  = IF identifier # "" THEN @ \cup {identifier} ELSE @,
            !.admin_sends      = IF IsAdminType(user_type) THEN @ + 1 ELSE @,
            !.user_sends       = IF ~IsAdminType(user_type) THEN @ + 1 ELSE @,
            !.signals_by_trend = IF trend \in DOMAIN @
                                 THEN [@ EXCEPT ![trend] = @ + 1] ELSE @]

\* the trend is counted for successful attempts only
log_signal_TrendOnSuccess(st, trend, success, identifier, user_type) ==
    [st EXCEPT
        !.total_signals    = @ + 1,
        !.successful_sends = IF success THEN @ + 1 ELSE @,
        !.failed_sends     = IF success THEN @ ELSE @ + 1,
        !.devices_reached  = IF success /\ identifier # "" THEN @ \cup {identifier} ELSE @,
        !.admin_sends      = IF success /\ IsAdminType(user_type) THEN @ + 1 ELSE @,
        !.user_sends       = IF success /\ ~IsAdminType(user_type) THEN @ + 1 ELSE @,
        !.signals_by_trend = IF success /\ trend \in DOMAIN @
                             THEN [@ EXCEPT ![trend] = @ + 1] ELSE @]

\* Statistics.log_signal
log_signal(st, trend, success, identifier, user_type) ==
    LET s1 == [st EXCEPT !.total_signals = @ + 1]
        s2 == IF success
              THEN LET a == [s1 EXCEPT !.successful_sends = @ + 1]
                       b == IF identifier # ""
                            THEN [a EXCEPT !.devices_reached = @ \cup {identifier}]
                            ELSE a
                   IN  IF IsAdminType(user_type)
                       THEN [b EXCEPT !.admin_sends = @ + 1]
                       ELSE [b EXCEPT !.user_sends = @ + 1]
              ELSE [s1 EXCEPT !.failed_sends = @ + 1]
    IN  IF trend \in DOMAIN s2.signals_by_trend
        THEN [s2 EXCEPT !.signals_by_trend[trend] = @ + 1]
        ELSE s2

(***************************************************************************)
(* fcm_sender.send_signal_to_tokens.  A value of the directive dict keeps  *)
(* its Python type: [ty, v] with ty "int", "NoneType" (None or a missing   *)
(* key) or "str".  An entry of the recipient list is a record of its three *)
(* components and its shape: "tuple3", or "short" for an entry that does   *)
(* not unpack into three names, or "class_not_str".                        *)
(***************************************************************************)
PyInt(n) == [ty |-> "int", v |-> n]

PyNone == [ty |-> "NoneType", v |-> 0]

PyStr == [ty |-> "str", v |-> 0]

ZeroResult ==
    [success |-> 0, failed |-> 0, total |-> 0, user_success |-> 0, admin_success |-> 0]

\* the has_time check left out
Validate_NoTimeCheck(sd, tk) ==
    IF sd.hour.ty # "int" \/ sd.minute.ty # "int" THEN "invalid_hour_minute"
    ELSE IF Len(tk) = 0 THEN "no_tokens"
    ELSE "ok"

\* lines 28-43: the three early returns
Validate(sd, tk) ==
    IF ~sd.has_time THEN "no_time"
    ELSE IF sd.hour.ty # "int" \/ sd.minute.ty # "int" THEN "invalid_hour_minute"
    ELSE IF Len(tk) = 0 THEN "no_tokens"
    ELSE "ok"

\* lines 47-63: building the payload raises when second does not format as %02d
PrepareRaises(sd) == sd.second.ty # "int"

\* a failed send that is raised out of the loop
AfterAttempt_Propagate(outcome) == IF outcome = "ok" THEN "loop" ELSE "raised"

\* lines 100-107: both except clauses count the failure and the loop goes on
AfterAttempt(outcome) == "loop"

\* a failed send that is tried a second time
Invocations_RetryOnce(k, token, outcome) ==
    IF outcome = "ok" THEN << [index |-> k, token |-> token] >>
    ELSE << [index |-> k, token |-> token], [index |-> k, token |-> token] >>

\* line 89: one messaging.send per iteration
Invocations(k, token, outcome) == << [index |-> k, token |-> token] >>

\* config.py 52
FCM_TTL_SECONDS == 60

\* datetime.now() at line 62, in milliseconds
DispatchInstants == {1000, 2000}

\* str(n) of an int n >= 0, and "-" before the digits of -n otherwise
RECURSIVE PyStrOfInt(_)
PyStrOfInt(n) ==
    IF n < 0 THEN <<"-">> \o PyStrOfInt(0 - n)
    ELSE IF n < 10 THEN << CHOOSE c \in {"0", "1", "2", "3", "4", "5", "6", "7", "8", "9"} :
                              DigitVal(c) = n >>
    ELSE PyStrOfInt(n \div 10) \o PyStrOfInt(n % 10)

\* f"{n:02d}": at least two characters, the sign counted, filled with zeros
\* after the sign
Format02d(n) ==
    IF n >= 0 /\ n < 10 THEN <<"0">> \o PyStrOfInt(n) ELSE PyStrOfInt(n)

\* line 48
TrendLetter(sd) == IF sd.trend = "call" THEN "B" ELSE "S"

\* lines 48-63: formatted_message and the dict fcm_data, built at the instant
\* ts (parsed_at, a copy of the directive's entry, is left out)
BuildPayload(sd, ts) ==
    [type              |-> "TRADING_SIGNAL",
     trend             |-> sd.trend,
     has_time          |-> "true",
     hour              |-> PyStrOfInt(sd.hour.v),
     minute            |-> PyStrOfInt(sd.minute.v),
     second            |-> PyStrOfInt(sd.second.v),
     original_message  |-> sd.original_message,
     formatted_message |-> Format02d(sd.hour.v) \o <<":">> \o Format02d(sd.minute.v)
                               \o <<":">> \o Format02d(sd.second.v)
                               \o <<" ", TrendLetter(sd)>>,
     auto_time_added   |-> IF sd.auto_time_added THEN "true" ELSE "false",
     timestamp         |-> ts]

\* the dict is built anew for every recipient
MessageData_Rebuilt(built, sd, k) == BuildPayload(sd, built.timestamp + k)

\* line 74: data=fcm_data, the dict built before the loop
MessageData(built, sd, k) == built

\* line 78: ttl=timedelta(seconds=FCM_TTL_SECONDS)
MessageTtl(k) == FCM_TTL_SECONDS

\* lines 73-87: the Message for the entry k of tokens
Message(built, sd, k, token) ==
    [data  |-> MessageData(built, sd, k),
     token |-> token,
     ttl   |-> MessageTtl(k),
     body  |-> MessageData(built, sd, k).formatted_message]

\* the state of the sender between two calls
SenderIdle ==
    /\ send_pc = "idle"
    /\ signal_data = [has_time |-> FALSE, hour |-> PyNone, minute |-> PyNone,
                      second |-> PyNone, trend |-> "", auto_time_added |-> FALSE,
                      original_message |-> <<>>]
    /\ tokens = <<>>
    /\ port = <<>>
    /\ idx = 0
    /\ success_count = 0 /\ failed_count = 0
    /\ user_success = 0 /\ admin_success = 0
    /\ sent = <<>>
    /\ fcm_data = {}
    /\ messages = <<>>
    /\ result = {}
    /\ stats = NewStatistics
    /\ stats_before = NewStatistics
    /\ calls = <<>>

CallRecord(res) ==
    [signal_data |-> signal_data, tokens |-> tokens, port |-> port,
     before |-> stats_before, after |-> stats, result |-> res,
     sends |-> Len(sent)]

\* lines 23-69: entry of send_signal_to_tokens(sd, tk) up to the loop; p is what
\* the notification port will answer for each entry
Enter(sd, tk, p) ==
    /\ signal_data' = sd
    /\ tokens' = tk
    /\ port' = p
    /\ stats_before' = stats
    /\ sent' = <<>>
    /\ idx' = 1
    /\ success_count' = 0 /\ failed_count' = 0
    /\ user_success' = 0 /\ admin_success' = 0
    /\ messages' = <<>>
    /\ IF Validate(sd, tk) # "ok" \/ PrepareRaises(sd)
       THEN /\ send_pc' = "returned"
            /\ fcm_data' = {}
            /\ result' = {ZeroResult}
            /\ calls' = Append(calls, [signal_data |-> sd, tokens |-> tk, port |-> p,
                                       before |-> stats, after |-> stats,
                                       result |-> ZeroResult, sends |-> 0])
       ELSE /\ send_pc' = "loop"
            /\ \E ts \in DispatchInstants : fcm_data' = {BuildPayload(sd, ts)}
            /\ result' = {}
            /\ calls' = calls
    /\ UNCHANGED <<stats, parserVars, supVars, fetchVars, hookVars, runVars>>

\* lines 71-107: one iteration of the loop over tokens
SendOne ==
    /\ send_pc = "loop"
    /\ idx <= Len(tokens)
    /\ LET r       == tokens[idx]
           outcome == port[idx]
           trend   == signal_data.trend
       IN  IF r.shape = "short"
           THEN \* the unpacking raises outside the inner try
                /\ send_pc' = "raised"
                /\ UNCHANGED <<idx, success_count, failed_count, user_success,
                               admin_success, sent, messages, stats>>
           ELSE /\ sent' = sent \o Invocations(idx, r.token, outcome)
                /\ messages' = Append(messages,
                                      Message(CHOOSE d \in fcm_data : TRUE,
                                              signal_data, idx, r.token))
                /\ idx' = idx + 1
                /\ send_pc' = AfterAttempt(outcome)
                /\ IF outcome = "ok" /\ r.shape = "tuple3"
                   THEN /\ success_count' = success_count + 1
                        /\ failed_count' = failed_count
                        /\ admin_success' = admin_success +
                                            (IF IsAdminType(r.user_type) THEN 1 ELSE 0)
                        /\ user_success' = user_success +
                                           (IF IsAdminType(r.user_type) THEN 0 ELSE 1)
                        /\ stats' = log_signal(stats, trend, TRUE, r.identifier, r.user_type)
                   ELSE \* UnregisteredError, any other exception of the send, or
                        \* user_type.lower() raising after success_count += 1
                        /\ success_count' = success_count + (IF outcome = "ok" THEN 1 ELSE 0)
                        /\ failed_count' = failed_count + 1
                        /\ UNCHANGED <<user_success, admin_success>>
                        /\ stats' = log_signal(stats, trend, FALSE, r.identifier, r.user_type)
    /\ UNCHANGED <<signal_data, tokens, port, fcm_data, result, stats_before, calls,
                   parserVars, supVars, fetchVars, hookVars, runVars>>

\* stats.log_signal is called once more after the loop
AfterPass_LogAggregate(st, trend) == log_signal(st, trend, TRUE, "", "user")

\* lines 109-123: after the loop the counts are printed and returned; stats is
\* not written
AfterPass(st, trend) == st

\* lines 109-123: the summary is returned; lines 125-129: the outer handler
\* returns the zero result
Return ==
    /\ \/ send_pc = "loop" /\ idx > Len(tokens)
       \/ send_pc = "raised"
    /\ LET res == IF send_pc = "raised" THEN ZeroResult
                  ELSE [success       |-> success_count,
                        failed        |-> failed_count,
                        total         |-> Len(tokens),
                        user_success  |-> user_success,
                        admin_success |-> admin_success]
       IN  /\ result' = {res}
           /\ calls' = Append(calls, CallRecord(res))
    /\ send_pc' = "returned"
    /\ stats' = IF send_pc = "raised" THEN stats ELSE AfterPass(stats, signal_data.trend)
    /\ UNCHANGED <<signal_data, tokens, port, idx, success_count, failed_count,
                   user_success, admin_success, sent, fcm_data, messages, stats_before,
                   parserVars, supVars, fetchVars, hookVars, runVars>>

(***************************************************************************)
(* firebase_manager.FirebaseManager: the recipient store.  A document is a *)
(* record of the fields the queries read; a token is a string, of which    *)
(* only "" and " " are empty or blank.                                     *)
(***************************************************************************)
\* lines 79, 133: fcm_token and fcm_token.strip()
HasToken(fcm_token) == fcm_token # "" /\ fcm_token # " "

\* lines 64-67, 72, 114-117, 122: the documents with isActive == True, in order
ActiveDocs(docs) ==
    LET IsActive(d) == d.isActive
    IN  SelectSeq(docs, IsActive)

\* lines 55-93: (userId, fcmToken, email) of the active users with a token; []
\* when self.db is None (56-58) and when the query raises (89-93)
get_all_active_user_fcm_tokens(st) ==
    IF ~st.db THEN <<>>
    ELSE IF "whitelist_users" \in st.raises THEN <<>>
    ELSE LET Kept(d) == HasToken(d.fcmToken)
             kept    == SelectSeq(ActiveDocs(st.users), Kept)
         IN  [k \in 1..Len(kept) |->
                 [user_id |-> kept[k].userId, fcm_token |-> kept[k].fcmToken,
                  email |-> kept[k].email]]

\* the role filter is not applied
get_all_admin_fcm_tokens_AnyRole(st, role_filter) ==
    IF ~st.db THEN <<>>
    ELSE IF "admin_users" \in st.raises THEN <<>>
    ELSE LET Kept(d) == HasToken(d.fcmToken)
             kept    == SelectSeq(ActiveDocs(st.admins), Kept)
         IN  [k \in 1..Len(kept) |->
                 [email |-> kept[k].email, fcm_token |-> kept[k].fcmToken,
                  role |-> kept[k].role]]

\* lines 105-147: (email, fcmToken, role) of the active admins with a token and,
\* under a role filter, with that role; [] when self.db is None (106-108) and
\* when the query raises (143-147)
get_all_admin_fcm_tokens(st, role_filter) ==
    IF ~st.db THEN <<>>
    ELSE IF "admin_users" \in st.raises THEN <<>>
    ELSE LET Kept(d) == /\ (role_filter = {} \/ d.role \in role_filter)
                        /\ HasToken(d.fcmToken)
             kept    == SelectSeq(ActiveDocs(st.admins), Kept)
         IN  [k \in 1..Len(kept) |->
                 [email |-> kept[k].email, fcm_token |-> kept[k].fcmToken,
                  role |-> kept[k].role]]

\* line 188: f'admin ({role})'
AdminType(role) == IF role = "super_admin" THEN "admin (super_admin)" ELSE "admin (admin)"

\* a failed query of one collection empties the whole list
get_all_fcm_tokens_combined_AllOrNothing(st, user_only, admin_only, admin_role_filter) ==
    LET user_tokens  == IF ~admin_only THEN get_all_active_user_fcm_tokens(st) ELSE <<>>
        admin_tokens == IF ~user_only
                        THEN get_all_admin_fcm_tokens(st, admin_role_filter) ELSE <<>>
    IN  IF st.raises # {} THEN <<>>
        ELSE
        [k \in 1..Len(user_tokens) |->
            [identifier |-> user_tokens[k].email, token |-> user_tokens[k].fcm_token,
             user_type |-> "user", shape |-> "tuple3"]]
        \o
        [k \in 1..Len(admin_tokens) |->
            [identifier |-> admin_tokens[k].email, token |-> admin_tokens[k].fcm_token,
             user_type |-> AdminType(admin_tokens[k].role), shape |-> "tuple3"]]

\* the flags read as the banner of lines 164-169 reads them: user_only first,
\* admin_only only when user_only is false
get_all_fcm_tokens_combined_UserOnlyFirst(st, user_only, admin_only, admin_role_filter) ==
    LET user_tokens  == IF user_only \/ ~admin_only
                        THEN get_all_active_user_fcm_tokens(st) ELSE <<>>
        admin_tokens == IF ~user_only
                        THEN get_all_admin_fcm_tokens(st, admin_role_filter) ELSE <<>>
    IN  [k \in 1..Len(user_tokens) |->
            [identifier |-> user_tokens[k].email, token |-> user_tokens[k].fcm_token,
             user_type |-> "user", shape |-> "tuple3"]]
        \o
        [k \in 1..Len(admin_tokens) |->
            [identifier |-> admin_tokens[k].email, token |-> admin_tokens[k].fcm_token,
             user_type |-> AdminType(admin_tokens[k].role), shape |-> "tuple3"]]

\* lines 161-194: users first (unless admin_only), then admins (unless user_only)
get_all_fcm_tokens_combined(st, user_only, admin_only, admin_role_filter) ==
    LET user_tokens  == IF ~admin_only THEN get_all_active_user_fcm_tokens(st) ELSE <<>>
        admin_tokens == IF ~user_only
                        THEN get_all_admin_fcm_tokens(st, admin_role_filter) ELSE <<>>
    IN  [k \in 1..Len(user_tokens) |->
            [identifier |-> user_tokens[k].email, token |-> user_tokens[k].fcm_token,
             user_type |-> "user", shape |-> "tuple3"]]
        \o
        [k \in 1..Len(admin_tokens) |->
            [identifier |-> admin_tokens[k].email, token |-> admin_tokens[k].fcm_token,
             user_type |-> AdminType(admin_tokens[k].role), shape |-> "tuple3"]]

\* the recipient store and the delivery mode while nothing is fetched
FetchIdle ==
    /\ store = [users |-> <<>>, admins |-> <<>>, raises |-> {}, db |-> TRUE]
    /\ mode = [user_only |-> FALSE, admin_only |-> FALSE, admin_role_filter |-> {}]
    /\ fetched = {}

(***************************************************************************)
(* telegram_client.listen_telegram_signals: the reconnecting listener.     *)
(* Durations are counted in 1/128 second: every delay the loop computes    *)
(* (5 * 1.5^k for k <= 6, and 60) is a whole number of these, as it is an  *)
(* exact binary fraction in the float arithmetic of the code.              *)
(***************************************************************************)
Sec(n) == n * 128

\* line 42
max_retries == 10

\* lines 43, 71
BaseDelay == Sec(5)

\* line 198: the cap of min(retry_delay * 1.5, 60)
DelayCap == Sec(60)

\* the delay grows without a cap
NextDelay_NoCap(d) == (d * 3) \div 2

\* line 198: min(retry_delay * 1.5, 60)
NextDelay(d) == IF (d * 3) \div 2 <= DelayCap THEN (d * 3) \div 2 ELSE DelayCap

\* the loop is left only once the count is above max_retries
RetriesExhausted_Above(n) == n > max_retries

\* line 187: retry_count >= max_retries
RetriesExhausted(n) == n >= max_retries

\* the exceptions the inner handlers of lines 138-158 print and re-raise
Retryable == {"TimedOutError", "ServerError", "OSError", "Exception"}

\* e.seconds of a FloodWaitError; with flood_sleep_threshold = 60 (line 66) the
\* client sleeps through shorter waits itself
FloodSeconds == {Sec(61), Sec(300)}

\* what an awaited call of the client can raise: the class and, for
\* FloodWaitError, its seconds
Raised ==
    {[cause |-> c, seconds |-> 0] : c \in Retryable \cup {"AuthKeyUnregisteredError"}}
        \cup {[cause |-> "FloodWaitError", seconds |-> d] : d \in FloodSeconds}

Failure(at, e) == [at |-> at, cause |-> e.cause, seconds |-> e.seconds]

NoFailure == [at |-> "none", cause |-> "none", seconds |-> 0]

\* lines 42-45: the locals before the while loop
SupervisorStart ==
    /\ sup_pc = "connect"
    /\ retry_count = 0
    /\ retry_delay = BaseDelay
    /\ client = "none"
    /\ attempts = 0
    /\ failed_run = 0
    /\ last_failure = NoFailure
    /\ waited = 0
    /\ slept = <<>>
    /\ summaries = 0
    /\ exit_cause = "none"

\* the handlers in live stay, and with them the updates waiting for them
Keep(live) ==
    /\ live_handlers' = live
    /\ inbox' = {u \in inbox : u.by \in live}

\* main.py 199-222: the function returns to asyncio.run, which ends the event
\* loop with every client and handler in it
LoopEnds == Keep({})

\* the client of a failed connection is left connected
DisconnectBeforeRetry_Skipped(live, g) == live

\* lines 179-185: client.disconnect() of the client g of the failed connection
DisconnectBeforeRetry(live, g) == live \ {g}

\* no run of handle_new_message yet
NoRun ==
    [id |-> 0, by |-> 0, text |-> {}, date |-> {}, reached |-> "none",
     parse_called |-> FALSE, directive |-> {}, fetch_called |-> FALSE,
     store |-> [users |-> <<>>, admins |-> <<>>, raises |-> {}, db |-> TRUE],
     tokens |-> <<>>, port |-> <<>>, sends |-> 0, logged |-> 0,
     before |-> NewStatistics, after |-> NewStatistics]

\* no handler is registered and no message has arrived
ListenerIdle ==
    /\ live_handlers = {}
    /\ inbox = {}
    /\ arrived = 0
    /\ handled = [m \in {} |-> 0]
    /\ last_run = NoRun
    /\ ledger = NewStatistics

\* lines 174-190: except Exception of the outer try, up to the sleep; g is the
\* client the variable client refers to
OuterExcept(g) ==
    /\ retry_count' = retry_count + 1
    /\ client' = IF client = "none" THEN "none" ELSE "closed"
    /\ IF RetriesExhausted(retry_count + 1)
       THEN /\ summaries' = summaries + 1
            /\ sup_pc' = "exited"
            /\ exit_cause' = "max_retries"
            /\ LoopEnds
       ELSE /\ sup_pc' = "backoff"
            /\ Keep(DisconnectBeforeRetry(live_handlers, g))
            /\ UNCHANGED <<summaries, exit_cause>>

\* the counters stay as the failed attempts before left them
ConnectOk_NoReset ==
    /\ sup_pc = "connect"
    /\ attempts < MaxAttempts
    /\ attempts' = attempts + 1
    /\ client' = "open"
    /\ slept' = <<>>
    /\ sup_pc' = "subscribe"
    /\ UNCHANGED hookVars
    /\ UNCHANGED <<retry_count, retry_delay, failed_run, last_failure, waited, summaries,
                   exit_cause, parserVars, senderVars, fetchVars, runVars>>

\* lines 63-71: client.start() returns
ConnectOk ==
    /\ sup_pc = "connect"
    /\ attempts < MaxAttempts
    /\ attempts' = attempts + 1
    /\ client' = "open"
    /\ retry_count' = 0
    /\ retry_delay' = BaseDelay
    /\ slept' = <<>>
    /\ sup_pc' = "subscribe"
    /\ UNCHANGED hookVars
    /\ UNCHANGED <<failed_run, last_failure, waited, summaries, exit_cause,
                   parserVars, senderVars, fetchVars, runVars>>

\* line 68: client.start() raises; no inner handler is around it, so every
\* exception class reaches except Exception of the outer try
ConnectFails ==
    /\ sup_pc = "connect"
    /\ attempts < MaxAttempts
    /\ \E e \in Raised :
          last_failure' = Failure("start", e)
    /\ attempts' = attempts + 1
    /\ failed_run' = failed_run + 1
    /\ waited' = 0
    /\ OuterExcept(attempts + 1)
    /\ UNCHANGED <<retry_delay, slept, parserVars, senderVars, fetchVars, runVars>>

\* lines 74-128: get_entity returns and the handler is registered
SubscribeOk ==
    /\ sup_pc = "subscribe"
    /\ sup_pc' = "listen"
    /\ failed_run' = 0
    /\ live_handlers' = live_handlers \cup {attempts}
    /\ inbox' = inbox
    /\ UNCHANGED <<retry_count, retry_delay, client, attempts, last_failure, waited,
                   slept, summaries, exit_cause, parserVars, senderVars, fetchVars, runVars>>

\* lines 138-158: get_entity or run_until_disconnected raises an exception
\* that its handler re-raises to the outer try
InnerFails ==
    /\ sup_pc \in {"subscribe", "listen"}
    /\ \E c \in Retryable :
          last_failure' = [at |-> sup_pc, cause |-> c, seconds |-> 0]
    /\ failed_run' = IF sup_pc = "subscribe" THEN failed_run + 1 ELSE failed_run
    /\ waited' = 0
    /\ OuterExcept(attempts)
    /\ UNCHANGED <<retry_delay, attempts, slept, parserVars, senderVars, fetchVars, runVars>>

\* lines 133-134: get_entity or run_until_disconnected raises FloodWaitError
InnerFlood ==
    /\ sup_pc \in {"subscribe", "listen"}
    /\ \E d \in FloodSeconds :
          last_failure' = [at |-> sup_pc, cause |-> "FloodWaitError", seconds |-> d]
    /\ failed_run' = IF sup_pc = "subscribe" THEN failed_run + 1 ELSE failed_run
    /\ waited' = 0
    /\ sup_pc' = "flood_sleep"
    /\ UNCHANGED hookVars
    /\ UNCHANGED <<retry_count, retry_delay, client, attempts, slept, summaries,
                   exit_cause, parserVars, senderVars, fetchVars, runVars>>

\* lines 135-136: asyncio.sleep(e.seconds) and raise, into except Exception
FloodSleep ==
    /\ sup_pc = "flood_sleep"
    /\ slept' = Append(slept, [kind |-> "flood", seconds |-> last_failure.seconds])
    /\ waited' = waited + last_failure.seconds
    /\ OuterExcept(attempts)
    /\ UNCHANGED <<retry_delay, attempts, failed_run, last_failure,
                   parserVars, senderVars, fetchVars, runVars>>

\* lines 146-148: get_entity or run_until_disconnected raises
\* AuthKeyUnregisteredError: print and break
InnerAuthKey ==
    /\ sup_pc \in {"subscribe", "listen"}
    /\ last_failure' = [at |-> sup_pc, cause |-> "AuthKeyUnregisteredError", seconds |-> 0]
    /\ failed_run' = IF sup_pc = "subscribe" THEN failed_run + 1 ELSE failed_run
    /\ waited' = 0
    /\ sup_pc' = "exited"
    /\ exit_cause' = "auth_key"
    /\ LoopEnds
    /\ UNCHANGED <<retry_count, retry_delay, client, attempts, slept, summaries,
                   parserVars, senderVars, fetchVars, runVars>>

\* the return is handled as a failed connection: on to the backoff sleep
ListenReturns_Backoff ==
    /\ sup_pc = "listen"
    /\ sup_pc' = "backoff"
    /\ client' = "closed"
    /\ Keep(live_handlers \ {attempts})
    /\ UNCHANGED <<retry_count, retry_delay, attempts, failed_run, last_failure,
                   waited, slept, summaries, exit_cause, parserVars, senderVars, fetchVars, runVars>>

\* line 128: run_until_disconnected returns; the while loop starts over
ListenReturns ==
    /\ sup_pc = "listen"
    /\ sup_pc' = "connect"
    /\ client' = "closed"
    /\ Keep(live_handlers \ {attempts})
    /\ UNCHANGED <<retry_count, retry_delay, attempts, failed_run, last_failure,
                   waited, slept, summaries, exit_cause, parserVars, senderVars, fetchVars, runVars>>

\* lines 192-198: asyncio.sleep(retry_delay), then the next delay
Backoff ==
    /\ sup_pc = "backoff"
    /\ slept' = Append(slept, [kind |-> "backoff", seconds |-> retry_delay])
    /\ waited' = waited + retry_delay
    /\ retry_delay' = NextDelay(retry_delay)
    /\ sup_pc' = "connect"
    /\ UNCHANGED hookVars
    /\ UNCHANGED <<retry_count, client, attempts, failed_run, last_failure,
                   summaries, exit_cause, parserVars, senderVars, fetchVars, runVars>>

\* lines 165-170: if client and client.is_connected(): client.disconnect()
DisconnectIfConnected(c) == IF c = "open" THEN "closed" ELSE c

\* lines 160-172: except KeyboardInterrupt of the outer try
Drain ==
    /\ summaries' = summaries + 1
    /\ client' = DisconnectIfConnected(client)
    /\ sup_pc' = "exited"
    /\ exit_cause' = "keyboard_interrupt"
    /\ LoopEnds

\* lines 130-131, 160-172: KeyboardInterrupt inside the outer try
Interrupt ==
    /\ sup_pc \in {"connect", "subscribe", "listen", "flood_sleep"}
    /\ Drain
    /\ UNCHANGED <<retry_count, retry_delay, attempts, failed_run, last_failure,
                   waited, slept, parserVars, senderVars, fetchVars, runVars>>

\* main.py 199: asyncio.run answers SIGINT by cancelling the main task, and
\* cancels it as well when the event loop is left by a KeyboardInterrupt
\* raised outside the coroutine.  CancelledError is raised at the await the
\* coroutine is suspended at (68, 74, 128, 135, 195); it is a BaseException
\* and no KeyboardInterrupt, so no except clause of the inner try (130-158) or
\* of the outer try (160, 174) matches it and the coroutine ends there
Cancelled ==
    /\ sup_pc \in {"connect", "subscribe", "listen", "flood_sleep", "backoff"}
    /\ sup_pc' = "exited"
    /\ exit_cause' = "cancelled"
    /\ LoopEnds
    /\ UNCHANGED <<retry_count, retry_delay, client, attempts, failed_run, last_failure,
                   waited, slept, summaries, parserVars, senderVars, fetchVars, runVars>>

InitSup ==
    /\ pc = "call"
    /\ message_text = <<>>
    /\ message_time = {}
    /\ parsed = {}
    /\ SenderIdle
    /\ SupervisorStart
    /\ FetchIdle
    /\ ListenerIdle

NextSup ==
    \/ ConnectOk \/ ConnectFails \/ SubscribeOk \/ InnerFails \/ InnerFlood
    \/ FloodSleep \/ InnerAuthKey \/ ListenReturns \/ Backoff \/ Interrupt \/ Cancelled

SpecSup == InitSup /\ [][NextSup]_vars

(***************************************************************************)
(* Inputs of the parser.                                                   *)
(***************************************************************************)
Spaces(n) == [k \in 1..n |-> " "]

HourStrs == {<<"0">>, <<"9">>, <<"0", "0">>, <<"0", "9">>, <<"1", "2">>,
             <<"2", "3">>, <<"2", "4">>, <<"2", "5">>, <<"9", "9">>}

MinuteStrs == {<<"0", "0">>, <<"0", "5">>, <<"5", "9">>, <<"6", "0">>, <<"9", "9">>}

\* one time + trend occurrence, with 0..1 blanks after the separator and
\* 0..MaxGap blanks before the letter
OneSignal ==
    {h \o <<sep>> \o Spaces(a) \o mm \o Spaces(b) \o <<l>> :
        h \in HourStrs, sep \in {":", "."}, a \in 0..1, mm \in MinuteStrs,
        b \in 0..MaxGap, l \in {"S", "B", "s", "b"}}

Wrappers == {<< <<>>, <<>> >>, << <<" ">>, <<"\n">> >>, << <<"1">>, <<>> >>,
             << <<"x", " ">>, <<" ", "x">> >>}

SingleTexts == {w[1] \o t \o w[2] : w \in Wrappers, t \in OneSignal}

ShortSignal ==
    {h \o <<":">> \o mm \o <<" ", l>> :
        h \in {<<"9">>, <<"2", "3">>, <<"2", "5">>},
        mm \in {<<"0", "5">>, <<"6", "0">>}, l \in {"S", "b"}}

DoubleTexts ==
    {t1 \o j \o t2 : t1 \in ShortSignal, t2 \in ShortSignal,
                      j \in {<<>>, <<" ">>, <<"\n">>, <<" ", "x", " ">>}}

BareTexts == {<<"S">>, <<"B">>}

OtherTexts == {<<"s">>, <<" ", "b", "\n">>, <<>>, <<" ">>, <<"x">>, <<"S", "B">>, <<"S", " ", "S">>,
               <<"B", "x">>, <<"9", ":", "0", "5">>, <<":", "0", "5", " ", "S">>,
               <<"9", ":", "5", " ", "S">>, <<"9", ",", "0", "5", " ", "S">>}

Instants(hs, ms, ss) ==
    {[hour |-> h, minute |-> m, second |-> s] : h \in hs, m \in ms, s \in ss}

\* arrival instants (UTC) paired with the texts that carry their own time
FewTimes == {{}, {[hour |-> 16, minute |-> 59, second |-> 45]},
             {[hour |-> 7, minute |-> 7, second |-> 10]}}

\* arrival instants (UTC) paired with the bare trends
AllTimes == {{}} \cup {{d} : d \in Instants(0..23, 0..59, 0..59)}

ParserInputs ==
    ((SingleTexts \cup DoubleTexts \cup OtherTexts) \X FewTimes)
        \cup (BareTexts \X AllTimes)

InitParse ==
    /\ pc = "call"
    /\ \E inp \in ParserInputs :
          /\ message_text = inp[1]
          /\ message_time = inp[2]
    /\ parsed = {}
    /\ SenderIdle
    /\ SupervisorStart
    /\ FetchIdle
    /\ ListenerIdle

\* one call parse_signal(message_text, message_time)
ParseSignal ==
    /\ pc = "call"
    /\ parsed' = parse_signal(message_text, message_time)
    /\ pc' = IF parse_signal_raises(message_text, message_time) THEN "raised" ELSE "done"
    /\ UNCHANGED <<message_text, message_time, senderVars, supVars, fetchVars, hookVars, runVars>>

NextParse == ParseSignal

SpecParse == InitParse /\ [][NextParse]_vars

(***************************************************************************)
(* Inputs of the sender.                                                   *)
(***************************************************************************)
SignalDict(has_time, hour, minute, second, trend, auto) ==
    [has_time |-> has_time, hour |-> hour, minute |-> minute, second |-> second,
     trend |-> trend, auto_time_added |-> auto,
     original_message |-> IF auto THEN <<"S">> ELSE <<"9", ":", "0", "5", " ", "B">>]

CompleteSignals ==
    {SignalDict(TRUE, PyInt(9), PyInt(5), PyInt(45), "call", FALSE),
     SignalDict(TRUE, PyInt(0), PyInt(1), PyInt(0), "put", TRUE),
     SignalDict(TRUE, PyInt(23), PyInt(59), PyInt(30), "put", FALSE)}

IncompleteSignals ==
    {SignalDict(FALSE, PyInt(9), PyInt(5), PyInt(45), "call", FALSE),
     SignalDict(TRUE, PyNone, PyInt(5), PyInt(0), "put", FALSE),
     SignalDict(TRUE, PyInt(9), PyStr, PyInt(0), "call", FALSE)}

\* the entries get_all_fcm_tokens_combined builds: (email, token, class); an
\* address may be listed as end user and as operator, and a whitelist document
\* without an email yields the identifier ''
Recipient(identifier, token, user_type) ==
    [identifier |-> identifier, token |-> token, user_type |-> user_type,
     shape |-> "tuple3"]

Recipients ==
    {Recipient("a@x", "tok1", "user"),
     Recipient("a@x", "tok2", "admin (super_admin)"),
     Recipient("", "tok3", "user")}

Outcomes == {"ok", "unregistered", "error"}

SeqsUpTo(S, n) == UNION {[1..k -> S] : k \in 0..n}

InitSend ==
    /\ pc = "call"
    /\ message_text = <<>>
    /\ message_time = {}
    /\ parsed = {}
    /\ SenderIdle
    /\ SupervisorStart
    /\ FetchIdle
    /\ ListenerIdle

\* a first call send_signal_to_tokens(sd, tk)
Call ==
    /\ send_pc = "idle"
    /\ \E sd \in CompleteSignals \cup IncompleteSignals :
       \E tk \in SeqsUpTo(Recipients, MaxTokens) :
       \E p \in [1..Len(tk) -> Outcomes] :
          Enter(sd, tk, p)

\* the same call made again: same directive, same list, same answers of the port
CallAgain ==
    /\ send_pc = "returned"
    /\ Len(calls) < MaxCalls
    /\ Enter(signal_data, tokens, port)

NextSend == Call \/ SendOne \/ Return \/ CallAgain

SpecSend == InitSend /\ [][NextSend]_vars

\* entries of a recipient list that are no (identifier, token, class) of
\* strings: a pair, and a triple whose class is None
MalformedRecipients ==
    {[identifier |-> "b@x", token |-> "tok4", user_type |-> "", shape |-> "short"],
     [identifier |-> "c@x", token |-> "tok5", user_type |-> "", shape |-> "class_not_str"]}

\* a call send_signal_to_tokens(sd, tk) with any list
CallAny ==
    /\ send_pc = "idle"
    /\ \E sd \in CompleteSignals :
       \E tk \in SeqsUpTo(Recipients \cup MalformedRecipients, MaxTokens) :
       \E p \in [1..Len(tk) -> Outcomes] :
          Enter(sd, tk, p)

NextSendAny == CallAny \/ SendOne \/ Return

SpecSendAny == InitSend /\ [][NextSendAny]_vars

(***************************************************************************)
(* Inputs of the recipient store.                                          *)
(***************************************************************************)
UserDoc(n, active, tok) ==
    [userId |-> n, email |-> n, isActive |-> active, fcmToken |-> tok, role |-> ""]

AdminDoc(n, active, tok, role) ==
    [userId |-> "", email |-> n, isActive |-> active, fcmToken |-> tok, role |-> role]

\* the documents a store may hold, in the order a query streams them; a
\* document without email reads as ''
UserDocs ==
    << UserDoc("u1@x", TRUE, "tokU1"), UserDoc("u2@x", TRUE, ""),
       UserDoc("u3@x", FALSE, "tokU3"), UserDoc("", TRUE, "tokU4") >>

AdminDocs ==
    << AdminDoc("a1@x", TRUE, "tokA1", "super_admin"), AdminDoc("a2@x", TRUE, "tokA2", "admin"),
       AdminDoc("a3@x", FALSE, "tokA3", "super_admin"), AdminDoc("a4@x", TRUE, " ", "super_admin") >>

\* the documents of docs at the positions in keep, in order
Pick(docs, keep) ==
    LET F[k \in 0..Len(docs)] ==
            IF k = 0 THEN <<>>
            ELSE IF k \in keep THEN Append(F[k - 1], docs[k]) ELSE F[k - 1]
    IN  F[Len(docs)]

Stores ==
    {[users |-> Pick(UserDocs, ku), admins |-> Pick(AdminDocs, ka), raises |-> r, db |-> TRUE] :
        ku \in SUBSET DOMAIN UserDocs, ka \in SUBSET DOMAIN AdminDocs,
        r \in SUBSET {"whitelist_users", "admin_users"}}

\* main.py 199-222: the four ways listen_telegram_signals is started
Modes ==
    {[user_only |-> FALSE, admin_only |-> FALSE, admin_role_filter |-> {}],
     [user_only |-> FALSE, admin_only |-> TRUE, admin_role_filter |-> {}],
     [user_only |-> FALSE, admin_only |-> TRUE, admin_role_filter |-> {"super_admin"}],
     [user_only |-> TRUE, admin_only |-> FALSE, admin_role_filter |-> {}]}

InitFetch ==
    /\ pc = "call"
    /\ message_text = <<>>
    /\ message_time = {}
    /\ parsed = {}
    /\ SenderIdle
    /\ SupervisorStart
    /\ store \in Stores
    /\ mode \in Modes
    /\ fetched = {}
    /\ ListenerIdle

\* one call firebase_manager.get_all_fcm_tokens_combined(...)
FetchTokens ==
    /\ fetched = {}
    /\ fetched' = {get_all_fcm_tokens_combined(store, mode.user_only, mode.admin_only,
                                               mode.admin_role_filter)}
    /\ UNCHANGED <<store, mode, parserVars, senderVars, supVars, hookVars, runVars>>

NextFetch == FetchTokens

SpecFetch == InitFetch /\ [][NextFetch]_vars

(***************************************************************************)
(* Fetching and dispatching as handle_new_message does it (telegram_client *)
(* 106-114), for every store and every combination of the arguments of     *)
(* get_all_fcm_tokens_combined.                                            *)
(***************************************************************************)
\* the stores, and the stores whose FirebaseManager has no Firestore client:
\* initialize() was not called or returned False
AnyStores ==
    Stores \cup {[s EXCEPT !.db = FALSE] : s \in {t \in Stores : t.raises = {}}}

\* firebase_manager.py 149: every value of user_only and admin_only, and
\* admin_role_filter None or a role
AnyModes ==
    [user_only : BOOLEAN, admin_only : BOOLEAN,
     admin_role_filter : {{}, {"admin"}, {"super_admin"}}]

\* what messaging.send does for a token: every send succeeds, or every send
\* to an end user's token fails
DeliverAnswers ==
    {[t \in {"tokU1", "tokU3", "tokU4", "tokA1", "tokA2", "tokA3"} |-> "ok"],
     [t \in {"tokU1", "tokU3", "tokU4", "tokA1", "tokA2", "tokA3"} |->
         IF t \in {"tokU1", "tokU3", "tokU4"} THEN "error" ELSE "ok"]}

InitDeliver ==
    /\ pc = "call"
    /\ message_text = <<>>
    /\ message_time = {}
    /\ parsed = {}
    /\ SenderIdle
    /\ SupervisorStart
    /\ store \in AnyStores
    /\ mode \in AnyModes
    /\ fetched = {}
    /\ ListenerIdle

\* telegram_client.py 107-111: tokens = get_all_fcm_tokens_combined(...)
FetchForDispatch ==
    /\ send_pc = "idle"
    /\ FetchTokens

\* telegram_client.py 114: send_signal_to_tokens(signal, tokens)
DispatchFetched ==
    /\ send_pc = "idle"
    /\ \E sd \in CompleteSignals :
       \E tk \in fetched :
       \E a \in DeliverAnswers :
          Enter(sd, tk, [k \in 1..Len(tk) |-> a[tk[k].token]])

NextDeliver == FetchForDispatch \/ DispatchFetched \/ SendOne \/ Return

SpecDeliver == InitDeliver /\ [][NextDeliver]_vars

\* the documents of the recipient store while the listener runs
ListenStores ==
    {[users  |-> << [userId |-> "u1@x", email |-> "u1@x", isActive |-> TRUE,
                     fcmToken |-> "tokU1", role |-> ""] >>,
      admins |-> << [userId |-> "", email |-> "a1@x", isActive |-> TRUE,
                     fcmToken |-> "tokA1", role |-> "super_admin"] >>,
      raises |-> {}, db |-> TRUE],
     [users  |-> << [userId |-> "u1@x", email |-> "u1@x", isActive |-> TRUE,
                     fcmToken |-> "tokU1", role |-> ""],
                    [userId |-> "u4", email |-> "", isActive |-> TRUE,
                     fcmToken |-> "tokU4", role |-> ""] >>,
      admins |-> << [userId |-> "", email |-> "a2@x", isActive |-> TRUE,
                     fcmToken |-> "tokA2", role |-> "admin"] >>,
      raises |-> {}, db |-> TRUE],
     [users  |-> << [userId |-> "u1@x", email |-> "u1@x", isActive |-> TRUE,
                     fcmToken |-> "tokU1", role |-> ""] >>,
      admins |-> << >>,
      raises |-> {"whitelist_users", "admin_users"}, db |-> TRUE]}

\* main.py 199, 210: the listener for all users and admins
ListenModes ==
    {[user_only |-> FALSE, admin_only |-> FALSE, admin_role_filter |-> {}]}

\* what messaging.send does for a token
PortAnswers ==
    {[t \in {"tokU1", "tokU4", "tokA1", "tokA2"} |-> "ok"],
     [t \in {"tokU1", "tokU4", "tokA1", "tokA2"} |->
         IF t = "tokU1" THEN "unregistered" ELSE IF t = "tokA2" THEN "error" ELSE "ok"]}

\* msg.text and msg.date of the messages of the channel
MessageForms ==
    {[text |-> {}, date |-> {[hour |-> 16, minute |-> 59, second |-> 45]}],
     [text |-> {<<>>}, date |-> {[hour |-> 16, minute |-> 59, second |-> 45]}],
     [text |-> {<<"x">>}, date |-> {[hour |-> 16, minute |-> 59, second |-> 45]}],
     [text |-> {<<"9", ":", "0", "5", " ", "B">>},
      date |-> {[hour |-> 16, minute |-> 59, second |-> 45]}],
     [text |-> {<<"9", ":", "0", "5", " ", "B">>}, date |-> {}]}

(***************************************************************************)
(* telegram_client.handle_new_message.  The handler has no await, and      *)
(* parse_signal, get_all_fcm_tokens_combined and send_signal_to_tokens are *)
(* plain functions: one run is one step of the event loop.  A message is   *)
(* its text and date, each of them possibly None; the notification port    *)
(* answers per token.                                                      *)
(***************************************************************************)
\* the directive as the dict handed to send_signal_to_tokens
DirectiveDict(d) ==
    [has_time |-> d.has_time, hour |-> PyInt(d.hour), minute |-> PyInt(d.minute),
     second |-> PyInt(d.second), trend |-> d.trend,
     auto_time_added |-> d.auto_time_added, original_message |-> d.original_message]

\* the list of an earlier query is used again
RecipientsFor_Cached(st, m, earlier) ==
    IF earlier # {} THEN CHOOSE l \in earlier : TRUE
    ELSE get_all_fcm_tokens_combined(st, m.user_only, m.admin_only, m.admin_role_filter)

\* lines 107-111: the query made for this message
RecipientsFor(st, m, earlier) ==
    get_all_fcm_tokens_combined(st, m.user_only, m.admin_only, m.admin_role_filter)

\* the statistics are reset before the first recipient is logged
LogAll_ResetFirst(st, trend, tk, p, n) ==
    LET F[k \in 0..n] ==
            IF k = 0 THEN NewStatistics
            ELSE log_signal(F[k - 1], trend, p[tk[k].token] = "ok",
                            tk[k].identifier, tk[k].user_type)
    IN  F[n]

\* fcm_sender.py 71-107 for recipients 1..n of a list of 3-tuples: one
\* log_signal per recipient, with success when messaging.send returned
LogAll(st, trend, tk, p, n) ==
    LET F[k \in 0..n] ==
            IF k = 0 THEN st
            ELSE log_signal(F[k - 1], trend, p[tk[k].token] = "ok",
                            tk[k].identifier, tk[k].user_type)
    IN  F[n]

\* a run works on the statistics as they were when an earlier run began
SharedStats_Stale(st, earlier) == earlier

\* statistics.py 66, fcm_sender.py 98-107: every run calls log_signal on the
\* one Statistics object of the process, as the run before left it
SharedStats(st, earlier) == st

\* the empty-text check left out
HasText_Always(text) == TRUE

\* line 94: if not msg.text
HasText(text) == text # {} /\ text # {<<>>}

\* an exception of the handler ends listening
AfterHandlerError_Propagate(at) == "exited"

\* lines 122-125: except Exception prints; the handler returns and
\* run_until_disconnected goes on
AfterHandlerError(at) == at

\* fcm_sender.py 71-123 seen from the handler: the fan-out over the list tk
\* goes through n recipients, the last of them cut short when n < sends
FanOutRun(base, d, dir, st, tk, p, before, cut, sends, n) ==
    [base EXCEPT !.reached = IF cut = 0 THEN "dispatched" ELSE "interrupted",
                 !.parse_called = TRUE,
                 !.directive = d,
                 !.fetch_called = TRUE,
                 !.store = st,
                 !.port = p,
                 !.tokens = tk,
                 !.sends = sends,
                 !.logged = n,
                 !.after = LogAll(before, dir.trend, tk, p, n)]

\* fcm_sender.py 37-69: the checks before the loop; nothing is sent when they
\* fail.  cut is 0, or the recipient during whose messaging.send a
\* KeyboardInterrupt is raised
FanOut(base, d, dir, st, tk, p, before, cut, go) ==
    IF ~go THEN FanOutRun(base, d, dir, st, tk, p, before, cut, 0, 0)
    ELSE IF cut = 0 \/ cut > Len(tk)
    THEN FanOutRun(base, d, dir, st, tk, p, before, cut, Len(tk), Len(tk))
    ELSE FanOutRun(base, d, dir, st, tk, p, before, cut, cut, cut - 1)

\* lines 107-114: the directive dir, the query and the fan-out
Dispatch(base, d, dir, st, tk, p, before, cut) ==
    FanOut(base, d, dir, st, tk, p, before, cut,
           Validate(DirectiveDict(dir), tk) = "ok" /\ ~PrepareRaises(DirectiveDict(dir)))

\* lines 99-120: after parse_signal, which raised or returned d
AfterParse(base, raised, d, st, m, earlier, p, before, cut) ==
    IF raised THEN [base EXCEPT !.reached = "raised", !.parse_called = TRUE]
    ELSE IF d = {} THEN [base EXCEPT !.reached = "rejected", !.parse_called = TRUE]
    ELSE Dispatch(base, d, CHOOSE x \in d : TRUE, st,
                  RecipientsFor(st, m, earlier), p, before, cut)

\* lines 86-99: the conversion of the date, the check of the text, and
\* parse_signal(msg.text, message_time=msg.date)
FromTop(base, text, date, st, m, earlier, p, before, cut) ==
    IF date = {}
    THEN \* line 87: utc_to_wib(None) raises AttributeError
         [base EXCEPT !.reached = "raised"]
    ELSE IF ~HasText(text)
    THEN [base EXCEPT !.reached = "no_text"]
    ELSE IF text = {}
    THEN \* signal_parser.py 13: None.strip() raises AttributeError
         [base EXCEPT !.reached = "raised", !.parse_called = TRUE]
    ELSE AfterParse(base, parse_signal_raises(CHOOSE t \in text : TRUE, date),
                    parse_signal(CHOOSE t \in text : TRUE, date),
                    st, m, earlier, p, before, cut)

\* lines 83-120: one run for the update u, on the store st in mode m, with the
\* port answering p
HandlerRun(u, st, m, earlier, p, before, cut) ==
    FromTop([NoRun EXCEPT !.id = u.id, !.by = u.by, !.text = u.text,
                          !.date = u.date, !.before = before, !.after = before],
            u.text, u.date, st, m, earlier, p, before, cut)

\* what the fan-out of run r logged, counted recipient by recipient
Tally(st, r) ==
    LET tk    == r.tokens
        done  == 1..r.logged
        oks   == {k \in done : r.port[tk[k].token] = "ok"}
        users == {k \in oks : tk[k].user_type = "user"}
        trend == (CHOOSE x \in r.directive : TRUE).trend
    IN  IF r.logged = 0 THEN st
        ELSE [total_signals    |-> st.total_signals + r.logged,
              successful_sends |-> st.successful_sends + Cardinality(oks),
              failed_sends     |-> st.failed_sends + r.logged - Cardinality(oks),
              signals_by_trend |-> [t \in {"call", "put"} |->
                                       st.signals_by_trend[t]
                                           + (IF t = trend THEN r.logged ELSE 0)],
              devices_reached  |-> st.devices_reached
                                       \cup ({tk[k].identifier : k \in oks} \ {""}),
              user_sends       |-> st.user_sends + Cardinality(users),
              admin_sends      |-> st.admin_sends + Cardinality(oks) - Cardinality(users)]

\* a message is posted in the channel: every connected client with the handler
\* registered receives the update (lines 81-82)
Arrive ==
    /\ live_handlers # {}
    /\ arrived < MaxMessages
    /\ arrived' = arrived + 1
    /\ \E f \in MessageForms :
          inbox' = inbox \cup {[id |-> arrived + 1, by |-> g, text |-> f.text,
                                date |-> f.date] : g \in live_handlers}
    /\ handled' = [m \in 1..(arrived + 1) |-> IF m <= arrived THEN handled[m] ELSE 0]
    /\ UNCHANGED <<live_handlers, last_run, ledger, parserVars, senderVars, supVars,
                   fetchVars>>

\* the bookkeeping of one run r, after which the handlers in live stay
Ran(u, r, live) ==
    /\ live_handlers' = live
    /\ inbox' = {v \in inbox \ {u} : v.by \in live}
    /\ handled' = [handled EXCEPT ![u.id] = @ + 1]
    /\ last_run' = r
    /\ ledger' = Tally(ledger, r)
    /\ stats' = r.after
    /\ fetched' = IF r.fetch_called THEN {r.tokens} ELSE fetched
    /\ UNCHANGED <<arrived, store, mode, parserVars, send_pc, signal_data, tokens, port,
                   idx, success_count, failed_count, user_success, admin_success, sent,
                   fcm_data, messages,
                   result, stats_before, calls>>

\* lines 82-125: one run of handle_new_message, to its end
Handle ==
    /\ \E u \in inbox : \E p \in PortAnswers :
          \E r \in {HandlerRun(u, store, mode, fetched, p,
                                SharedStats(stats, last_run.before), 0)} :
              /\ Ran(u, r, live_handlers)
              /\ sup_pc' = IF r.reached = "raised" THEN AfterHandlerError(sup_pc)
                           ELSE sup_pc
    /\ UNCHANGED <<retry_count, retry_delay, client, attempts, failed_run,
                   last_failure, waited, slept, summaries, exit_cause>>

\* a KeyboardInterrupt is raised while messaging.send runs for recipient cut:
\* it is no Exception, so it leaves fcm_sender.py 104 and 125 and the handler
\* (122).  The coroutine sees it at line 128 as the KeyboardInterrupt itself
\* (130-131, 160-172) or, the handler being run by the event loop, as the
\* cancellation that asyncio.run makes when the loop is left
HandleInterrupted ==
    /\ sup_pc = "listen"
    /\ \E u \in inbox : \E p \in PortAnswers : \E cut \in 1..MaxFanOut :
          \E r \in {HandlerRun(u, store, mode, fetched, p,
                                SharedStats(stats, last_run.before), cut)} :
              /\ r.reached = "interrupted"
              /\ cut <= Len(r.tokens)
              /\ r.sends = cut
              /\ Ran(u, r, {})
    /\ sup_pc' = "exited"
    /\ \/ /\ summaries' = summaries + 1
          /\ client' = DisconnectIfConnected(client)
          /\ exit_cause' = "keyboard_interrupt"
       \/ /\ exit_cause' = "cancelled"
          /\ UNCHANGED <<summaries, client>>
    /\ UNCHANGED <<retry_count, retry_delay, attempts, failed_run, last_failure,
                   waited, slept>>

\* the recipient store is changed from outside while the listener runs
StoreChanges ==
    /\ sup_pc = "listen"
    /\ store' \in ListenStores \ {store}
    /\ UNCHANGED <<mode, fetched, parserVars, senderVars, supVars, hookVars, runVars>>

InitListen ==
    /\ pc = "call"
    /\ message_text = <<>>
    /\ message_time = {}
    /\ parsed = {}
    /\ SenderIdle
    /\ SupervisorStart
    /\ store \in ListenStores
    /\ mode \in ListenModes
    /\ fetched = {}
    /\ ListenerIdle

\* lines 63-71, for the clients of the listener followed here
ListenConnectOk == attempts < MaxClients /\ ConnectOk

\* line 68 raising, for the clients of the listener followed here
ListenConnectFails == attempts < MaxClients /\ ConnectFails

NextListen ==
    \/ ListenConnectOk \/ ListenConnectFails \/ SubscribeOk \/ InnerFails \/ InnerFlood
    \/ FloodSleep \/ InnerAuthKey \/ ListenReturns \/ Backoff \/ Interrupt \/ Cancelled
    \/ Arrive \/ Handle \/ HandleInterrupted \/ StoreChanges

SpecListen == InitListen /\ [][NextListen]_vars

(***************************************************************************)
(* The shapes of text the statements below speak of, described on the raw  *)
(* text and independently of the matcher above.                            *)
(***************************************************************************)
\* the value of a one- or two-digit numeral starting at position i
Numeral(t, i, nd) ==
    IF nd = 2 THEN 10 * DigitVal(t[i]) + DigitVal(t[i + 1]) ELSE DigitVal(t[i])

\* the whole text is H:MM or H.MM, one or more spaces, one trend letter
IsExplicitForm(t) ==
    \E nd \in 1..2 :
        /\ Len(t) >= nd + 5
        /\ \A k \in 1..nd : IsDigit(t[k])
        /\ t[nd + 1] \in {":", "."}
        /\ IsDigit(t[nd + 2]) /\ IsDigit(t[nd + 3])
        /\ \A k \in (nd + 4)..(Len(t) - 1) : t[k] = " "
        /\ t[Len(t)] \in {"S", "B", "s", "b"}

\* the whole text is H:MM or H.MM and one trend letter, with nothing between
IsTightForm(t) ==
    \E nd \in 1..2 :
        /\ Len(t) = nd + 4
        /\ \A k \in 1..nd : IsDigit(t[k])
        /\ t[nd + 1] \in {":", "."}
        /\ IsDigit(t[nd + 2]) /\ IsDigit(t[nd + 3])
        /\ t[Len(t)] \in {"S", "B", "s", "b"}

FormDigits(t) == IF IsDigit(t[2]) THEN 2 ELSE 1

FormHour(t) == Numeral(t, 1, FormDigits(t))

FormMinute(t) == Numeral(t, FormDigits(t) + 2, 2)

FormTrend(t) == IF t[Len(t)] \in {"S", "s"} THEN "put" ELSE "call"

\* t[i..e] is one occurrence of time + trend: 1-2 digits, ':' or '.', optional
\* whitespace, 2 digits, whitespace, a trend letter; nd digits, minute at pm
OccursAt(t, i, e, nd, pm) ==
    /\ 1 <= i /\ e <= Len(t)
    /\ i + nd < pm /\ pm + 2 < e
    /\ \A k \in i..(i + nd - 1) : IsDigit(t[k])
    /\ t[i + nd] \in {":", "."}
    /\ \A k \in (i + nd + 1)..(pm - 1) : IsSpace(t[k])
    /\ IsDigit(t[pm]) /\ IsDigit(t[pm + 1])
    /\ \A k \in (pm + 2)..(e - 1) : IsSpace(t[k])
    /\ t[e] \in {"S", "B", "s", "b"}

Occurrence(t, i, e) ==
    \E nd \in 1..2 : \E pm \in (i + nd + 1)..(e - 3) : OccursAt(t, i, e, nd, pm)

TwoOccurrences(t) ==
    \E i \in 1..Len(t) : \E e \in (i + 5)..Len(t) :
        /\ Occurrence(t, i, e)
        /\ \E j \in (e + 1)..Len(t) : \E f \in (j + 5)..Len(t) : Occurrence(t, j, f)

\* the leftmost occurrence of t has an hour above 23 or a minute above 59
FirstOutOfRange(t) ==
    \E i \in 1..Len(t) : \E e \in (i + 5)..Len(t) :
        \E nd \in 1..2 : \E pm \in (i + nd + 1)..(e - 3) :
            /\ OccursAt(t, i, e, nd, pm)
            /\ \A j \in 1..(i - 1) : \A f \in (j + 5)..Len(t) : ~Occurrence(t, j, f)
            /\ (Numeral(t, i, nd) > 23 \/ Numeral(t, pm, 2) > 59)

\* the local wall clock of the arrival instant
ArrivalLocal == utc_to_wib(CHOOSE d \in message_time : TRUE)

TheParsed == CHOOSE d \in parsed : TRUE

MinuteOfDay(w) == w.hour * 60 + w.minute

(***************************************************************************)
(* What the statements about the fan-out speak of.                         *)
(***************************************************************************)
\* the directive passes as complete: has_time set, hour and minute integers
IsComplete(sd) == sd.has_time /\ sd.hour.ty = "int" /\ sd.minute.ty = "int"

\* the call that has returned was a real dispatch
Dispatched == send_pc = "returned" /\ IsComplete(signal_data) /\ tokens # <<>>

Succeeded == {k \in 1..Len(tokens) : port[k] = "ok"}

Failed == {k \in 1..Len(tokens) : port[k] # "ok"}

TheResult == CHOOSE r \in result : TRUE

SendsTo(k) == {n \in 1..Len(sent) : sent[n].index = k}

\* the integer counters of a Statistics
Counters(st) ==
    <<st.total_signals, st.successful_sends, st.failed_sends, st.user_sends,
      st.admin_sends, st.signals_by_trend["call"], st.signals_by_trend["put"]>>

\* what one completed call added to each counter
Increase(c) == [n \in 1..7 |-> Counters(c.after)[n] - Counters(c.before)[n]]

(***************************************************************************)
(* C1: in a dispatch with a complete directive and a non-empty recipient   *)
(* list a send is attempted for every recipient, whatever the outcomes of  *)
(* the earlier sends: while the loop runs every entry before its position  *)
(* has been attempted, no failure leaves the loop, and at the return every *)
(* entry has been attempted.                                               *)
(***************************************************************************)
C1_Isolation ==
    /\ send_pc # "raised"
    /\ send_pc = "loop" => \A k \in 1..(idx - 1) : SendsTo(k) # {}
    /\ Dispatched =>
         \A k \in 1..Len(tokens) :
            \E n \in SendsTo(k) : sent[n].token = tokens[k].token

C1_Witness ==
    /\ Dispatched
    /\ port = <<"unregistered", "error", "ok">>
    /\ SendsTo(2) # {} /\ SendsTo(3) # {}

(***************************************************************************)
(* C2 as stated: the result counts the recipients, the successful and the  *)
(* failed sends; successful_sends and failed_sends grow by exactly those   *)
(* numbers; and the identifier of every recipient whose send succeeded is  *)
(* in devices_reached.                                                     *)
(***************************************************************************)
C2_Accounting_AsStated ==
    Dispatched =>
        /\ TheResult.total = Len(tokens)
        /\ TheResult.success = Cardinality(Succeeded)
        /\ TheResult.failed = Cardinality(Failed)
        /\ stats.successful_sends = stats_before.successful_sends + TheResult.success
        /\ stats.failed_sends = stats_before.failed_sends + TheResult.failed
        /\ \A k \in Succeeded : tokens[k].identifier \in stats.devices_reached

(***************************************************************************)
(* C2 amended: as C2, with devices_reached holding every non-empty         *)
(* identifier of a recipient whose send succeeded (an empty identifier is  *)
(* counted but not recorded).                                              *)
(***************************************************************************)
C2_Accounting ==
    Dispatched =>
        /\ TheResult.total = Len(tokens)
        /\ TheResult.success = Cardinality(Succeeded)
        /\ TheResult.failed = Cardinality(Failed)
        /\ stats.successful_sends = stats_before.successful_sends + TheResult.success
        /\ stats.failed_sends = stats_before.failed_sends + TheResult.failed
        /\ \A k \in Succeeded :
              tokens[k].identifier # "" => tokens[k].identifier \in stats.devices_reached
        /\ "" \notin stats.devices_reached

C2_Witness ==
    /\ Dispatched
    /\ port = <<"ok", "unregistered", "error">>
    /\ tokens[1].identifier = "a@x"
    /\ TheResult.total = 3 /\ TheResult.success = 1 /\ TheResult.failed = 2
    /\ stats.successful_sends = stats_before.successful_sends + 1
    /\ stats.failed_sends = stats_before.failed_sends + 2
    /\ "a@x" \in stats.devices_reached

(***************************************************************************)
(* C3: messaging.send is invoked exactly once per entry of the recipient   *)
(* list, failed or not, in list order, and two entries with the same       *)
(* identifier are each sent to.                                            *)
(***************************************************************************)
C3_OncePerEntry ==
    /\ \A k \in 1..Len(tokens) : Cardinality(SendsTo(k)) <= 1
    /\ Dispatched =>
         /\ Len(sent) = Len(tokens)
         /\ \A k \in 1..Len(tokens) :
               sent[k] = [index |-> k, token |-> tokens[k].token]

C3_Witness ==
    /\ Dispatched
    /\ Len(tokens) = 2
    /\ tokens[1].identifier = tokens[2].identifier
    /\ tokens[1].user_type = "user" /\ tokens[2].user_type = "admin (super_admin)"
    /\ port = <<"error", "ok">>
    /\ Len(sent) = 2 /\ sent[1].token = "tok1" /\ sent[2].token = "tok2"

(***************************************************************************)
(* C4: two calls with the same directive, recipient list and send outcomes *)
(* add the same amount to every counter, so the second call doubles what   *)
(* the first one added.                                                    *)
(***************************************************************************)
C4_Doubling ==
    /\ \A a \in 1..Len(calls) : \A b \in (a + 1)..Len(calls) :
          (/\ calls[a].signal_data = calls[b].signal_data
           /\ calls[a].tokens = calls[b].tokens
           /\ calls[a].port = calls[b].port)
          => /\ Increase(calls[b]) = Increase(calls[a])
             /\ calls[b].result = calls[a].result
    /\ Len(calls) >= 2 =>
          \A n \in 1..7 :
             Counters(calls[2].after)[n] - Counters(calls[1].before)[n]
                = 2 * Increase(calls[1])[n]

C4_Witness ==
    /\ Len(calls) = 2
    /\ calls[2].tokens = calls[1].tokens /\ calls[2].port = calls[1].port
    /\ Len(tokens) = 3 /\ tokens[1] = tokens[2]
    /\ port = <<"ok", "ok", "error">>
    /\ calls[1].after.successful_sends = 2 /\ calls[2].after.successful_sends = 4
    /\ calls[1].after.failed_sends = 1 /\ calls[2].after.failed_sends = 2

(***************************************************************************)
(* C5: with an incomplete directive (has_time false or missing, hour or    *)
(* minute absent or not an integer) or an empty recipient list the call    *)
(* returns the all-zero result, invokes messaging.send zero times and      *)
(* leaves the statistics unchanged.                                        *)
(***************************************************************************)
C5_Guard ==
    (send_pc = "returned" /\ (~IsComplete(signal_data) \/ tokens = <<>>))
    => /\ result = {ZeroResult}
       /\ sent = <<>>
       /\ stats = stats_before

C5_Witness ==
    /\ send_pc = "returned"
    /\ ~signal_data.has_time
    /\ Len(tokens) = 2
    /\ result = {ZeroResult} /\ sent = <<>> /\ stats = stats_before

(***************************************************************************)
(* C6: a text that is H:MM or H.MM with hour 0..23 and minute 0..59, one   *)
(* or more spaces and one trend letter in either case parses to a          *)
(* directive with exactly that hour and minute, put for S and call for B,  *)
(* auto_time_added false, and the arrival's local second (0 without an     *)
(* arrival instant).                                                       *)
(***************************************************************************)
C6_ExplicitTime ==
    (/\ pc = "done"
     /\ IsExplicitForm(message_text)
     /\ FormHour(message_text) <= 23
     /\ FormMinute(message_text) <= 59)
    => parsed = {[trend            |-> FormTrend(message_text),
                  has_time         |-> TRUE,
                  hour             |-> FormHour(message_text),
                  minute           |-> FormMinute(message_text),
                  second           |-> IF message_time = {} THEN 0
                                       ELSE ArrivalLocal.second,
                  original_message |-> message_text,
                  auto_time_added  |-> FALSE]}

C6_Witness ==
    /\ pc = "done"
    /\ message_text = <<"9", ":", "0", "5", " ", "b">>
    /\ message_time = {[hour |-> 16, minute |-> 59, second |-> 45]}
    /\ parsed # {}
    /\ TheParsed.trend = "call" /\ TheParsed.hour = 9 /\ TheParsed.minute = 5
    /\ TheParsed.second = 45 /\ ~TheParsed.auto_time_added

(***************************************************************************)
(* C7: a text that is exactly S or B, arriving at local second s, parses   *)
(* to a directive with auto_time_added true and second 0 whose hour:minute *)
(* is the arrival's local minute + 1 when s <= 30 and + 2 when s > 30.     *)
(***************************************************************************)
C7_Threshold ==
    (/\ pc = "done"
     /\ message_text \in {<<"S">>, <<"B">>}
     /\ message_time # {})
    => /\ parsed # {}
       /\ TheParsed.auto_time_added
       /\ TheParsed.second = 0
       /\ TheParsed.trend = (IF message_text = <<"S">> THEN "put" ELSE "call")
       /\ (MinuteOfDay(TheParsed) - MinuteOfDay(ArrivalLocal)) % 1440
            = (IF ArrivalLocal.second <= 30 THEN 1 ELSE 2)

C7_Witness ==
    /\ pc = "done"
    /\ message_text = <<"S">>
    /\ message_time = {[hour |-> 7, minute |-> 7, second |-> 45]}
    /\ parsed # {}
    /\ TheParsed.trend = "put" /\ TheParsed.auto_time_added
    /\ TheParsed.hour = 14 /\ TheParsed.minute = 9 /\ TheParsed.second = 0

(***************************************************************************)
(* C8: for every arrival local time h:m:s and the offset k in {1, 2} the   *)
(* threshold rule chooses, the scheduled (hour, minute) is                 *)
(* ((h*60 + m + k) div 60 mod 24, (m + k) mod 60); 23:59:40 gives 00:01,   *)
(* 23:58:40 gives 00:00 and 23:59:10 gives 00:00.                          *)
(***************************************************************************)
C8_Rollover ==
    (/\ pc = "done"
     /\ message_text \in {<<"S">>, <<"B">>}
     /\ message_time # {})
    => LET w == ArrivalLocal
           k == IF 60 - w.second >= 30 THEN 1 ELSE 2
       IN  /\ parsed # {}
           /\ TheParsed.hour = ((w.hour * 60 + w.minute + k) \div 60) % 24
           /\ TheParsed.minute = (w.minute + k) % 60
           /\ (w = [hour |-> 23, minute |-> 59, second |-> 40]
                 => TheParsed.hour = 0 /\ TheParsed.minute = 1)
           /\ (w = [hour |-> 23, minute |-> 58, second |-> 40]
                 => TheParsed.hour = 0 /\ TheParsed.minute = 0)
           /\ (w = [hour |-> 23, minute |-> 59, second |-> 10]
                 => TheParsed.hour = 0 /\ TheParsed.minute = 0)

C8_Witness ==
    /\ pc = "done"
    /\ message_text = <<"B">>
    /\ message_time = {[hour |-> 16, minute |-> 59, second |-> 40]}
    /\ parsed # {}
    /\ TheParsed.hour = 0 /\ TheParsed.minute = 1 /\ TheParsed.second = 0

(***************************************************************************)
(* C9: a text with two or more non-overlapping occurrences of the time +   *)
(* trend pattern is rejected, whether or not each occurrence has a valid   *)
(* hour and minute.                                                        *)
(***************************************************************************)
C9_MultiSignal ==
    (pc = "done" /\ TwoOccurrences(message_text)) => parsed = {}

C9_Witness ==
    /\ pc = "done"
    /\ message_text = <<"9", ":", "0", "5", " ", "S", " ",
                        "2", "3", ":", "0", "5", " ", "b">>
    /\ TwoOccurrences(message_text)
    /\ parsed = {}

(***************************************************************************)
(* C10: a text whose time + trend occurrence has an hour above 23 or a     *)
(* minute above 59 is rejected by a normal return, and no later pattern    *)
(* turns it into a directive.                                              *)
(***************************************************************************)
C10_OutOfRange ==
    (pc = "done" /\ FirstOutOfRange(message_text)) => parsed = {}

C10_Witness ==
    /\ pc = "done"
    /\ message_text = <<"2", "5", ":", "0", "0", " ", "S">>
    /\ FirstOutOfRange(message_text)
    /\ parsed = {}

(***************************************************************************)
(* C11: a text that is exactly S or B (after trimming and upper-casing),   *)
(* parsed without an arrival instant, returns None: no directive, and so   *)
(* none with absent or defaulted time components.                          *)
(***************************************************************************)
C11_NoAnchor ==
    (/\ pc = "done"
     /\ Normalize(message_text) \in {<<"S">>, <<"B">>}
     /\ message_time = {})
    => parsed = {}

C11_Witness ==
    /\ pc = "done"
    /\ message_text = <<"B">>
    /\ message_time = {}
    /\ parsed = {}

(***************************************************************************)
(* C12: a text that is H:MM or H.MM with hour 0..23 and minute 0..59       *)
(* directly followed by the trend letter, such as 9:05B, parses to a       *)
(* directive with that hour and minute and auto_time_added false.          *)
(***************************************************************************)
C12_LooserFallback ==
    (/\ pc = "done"
     /\ IsTightForm(message_text)
     /\ FormHour(message_text) <= 23
     /\ FormMinute(message_text) <= 59)
    => /\ parsed # {}
       /\ TheParsed.hour = FormHour(message_text)
       /\ TheParsed.minute = FormMinute(message_text)
       /\ TheParsed.trend = FormTrend(message_text)
       /\ ~TheParsed.auto_time_added

(***************************************************************************)
(* C13: every value parse_signal returns other than None has has_time      *)
(* true, hour in 0..23, minute in 0..59, second in 0..59 and trend call or *)
(* put, for every text and with or without an arrival instant.             *)
(***************************************************************************)
C13_WellFormed ==
    pc = "done" =>
        \A d \in parsed :
            /\ d.has_time = TRUE
            /\ d.hour \in 0..23
            /\ d.minute \in 0..59
            /\ d.second \in 0..59
            /\ d.trend \in {"call", "put"}

C13_Witness ==
    /\ pc = "done"
    /\ message_text = <<"S">>
    /\ message_time = {[hour |-> 16, minute |-> 59, second |-> 45]}
    /\ parsed # {}
    /\ TheParsed.has_time
    /\ TheParsed.hour = 0 /\ TheParsed.minute = 1 /\ TheParsed.second = 0
    /\ TheParsed.trend = "put"

IsBackoff(x) == x.kind = "backoff"

\* the delays of the backoff sleeps since client.start() last returned
BackoffSleeps ==
    LET b == SelectSeq(slept, IsBackoff)
    IN  [k \in 1..Len(b) |-> b[k].seconds]

\* 5, 7.5, 11.25, 16.875, 25.3125, 37.96875, 56.953125 seconds in 1/128 second
GrowingDelays == <<640, 960, 1440, 2160, 3240, 4860, 7290>>

\* 60 seconds in 1/128 second
CappedDelay == <<7680>>

(***************************************************************************)
(* C15: there are never more than max_retries = 10 failed attempts in a    *)
(* row (attempts that fail in client.start() or in get_entity with a       *)
(* retryable cause, none reaching run_until_disconnected in between): the  *)
(* listener has terminated by then and connects no more.                   *)
(***************************************************************************)
C15_BoundedRetries ==
    /\ failed_run <= max_retries
    /\ (failed_run = max_retries /\ sup_pc # "flood_sleep") => sup_pc = "exited"

(***************************************************************************)
(* C16: when client.start() fails with AuthKeyUnregisteredError the        *)
(* listener is terminated at once: nothing is slept and no further         *)
(* connect attempt follows.                                                *)
(***************************************************************************)
C16_FatalConnect ==
    (last_failure.at = "start" /\ last_failure.cause = "AuthKeyUnregisteredError")
    => (sup_pc = "exited" /\ waited = 0)

(***************************************************************************)
(* C17: retry_delay is 5 s (and retry_count 0) until the first failure,    *)
(* is always within 5 s .. 60 s, becomes min(1.5 * previous, 60 s) with    *)
(* each backoff sleep that leads to a retry, is set to 5 s together with   *)
(* retry_count = 0 when client.start() returns, and changes in no other    *)
(* step.                                                                   *)
(***************************************************************************)
C17_BackoffRule ==
    /\ [](/\ retry_delay >= Sec(5)
          /\ retry_delay <= Sec(60)
          /\ (last_failure.at = "none" => (retry_delay = Sec(5) /\ retry_count = 0)))
    /\ [][/\ ((sup_pc = "backoff" /\ sup_pc' = "connect")
                => (\/ (2 * retry_delay' = 3 * retry_delay /\ retry_delay' <= Sec(60))
                    \/ (3 * retry_delay >= 2 * Sec(60) /\ retry_delay' = Sec(60))))
           /\ ((sup_pc = "connect" /\ sup_pc' = "subscribe")
                => (retry_delay' = Sec(5) /\ retry_count' = 0))
           /\ ((/\ ~(sup_pc = "backoff" /\ sup_pc' = "connect")
                /\ ~(sup_pc = "connect" /\ sup_pc' = "subscribe"))
                => retry_delay' = retry_delay)]_vars

C17_Witness ==
    /\ sup_pc = "subscribe"
    /\ attempts = 10
    /\ Len(slept) = 0
    /\ retry_delay = Sec(5) /\ retry_count = 0
    /\ last_failure.at = "start"

(***************************************************************************)
(* C18 as stated: when the listener gives up at the retry ceiling, the     *)
(* backoff delays slept since the last successful connect are the ten      *)
(* values 5, 7.5, 11.25, 16.875, 25.3125, 37.96875, 56.953125, 60, 60, 60. *)
(***************************************************************************)
C18_BackoffSequence_AsStated ==
    exit_cause = "max_retries"
    => BackoffSleeps = GrowingDelays \o CappedDelay \o CappedDelay \o CappedDelay

(***************************************************************************)
(* C18: when the listener gives up at the retry ceiling, the backoff       *)
(* delays slept since the last successful connect (or since the start)     *)
(* are the nine values 5, 7.5, 11.25, 16.875, 25.3125, 37.96875,           *)
(* 56.953125, 60, 60: the tenth failure in a row ends the loop without a   *)
(* sleep.                                                                  *)
(***************************************************************************)
C18_BackoffSequence ==
    exit_cause = "max_retries"
    => BackoffSleeps = GrowingDelays \o CappedDelay \o CappedDelay

C18_Witness ==
    /\ sup_pc = "exited"
    /\ exit_cause = "max_retries"
    /\ attempts = 10 /\ failed_run = 10
    /\ Len(slept) = 9
    /\ slept[7].seconds = 7290 /\ slept[9].seconds = 7680

(***************************************************************************)
(* C19: after a FloodWaitError carrying d seconds, the next connect        *)
(* attempt is reached with one retry counted and after a wait of d alone.  *)
(***************************************************************************)
C19_FloodWait ==
    (sup_pc = "connect" /\ last_failure.cause = "FloodWaitError")
    => (waited = last_failure.seconds /\ retry_count >= 1)

(***************************************************************************)
(* C20: the while loop is left only on AuthKeyUnregisteredError, at the    *)
(* retry ceiling or on KeyboardInterrupt, and every time                   *)
(* stats.print_summary() has been called when it is left.                  *)
(***************************************************************************)
C20_FlushOnExit ==
    sup_pc = "exited"
    => /\ exit_cause \in {"auth_key", "max_retries", "keyboard_interrupt"}
       /\ summaries >= 1

(***************************************************************************)
(* What the statements about the recipient store speak of.                 *)
(***************************************************************************)
\* the documents of a collection that are active and carry a token
WithToken(docs) ==
    {d \in {docs[k] : k \in DOMAIN docs} : d.isActive /\ d.fcmToken \notin {"", " "}}

\* the end users and the operators the delivery mode m addresses
ModeUsers(m) == IF m.admin_only THEN {} ELSE WithToken(store.users)

ModeAdmins(m) ==
    IF m.user_only THEN {}
    ELSE {d \in WithToken(store.admins) :
             m.admin_role_filter = {} \/ d.role \in m.admin_role_filter}

IsUserEntry(r) == r.user_type = "user"

(***************************************************************************)
(* C28: when both collections can be read, the list returned for the       *)
(* delivery mode holds exactly one entry for every active end user with a  *)
(* token (unless the mode is operators-only) and for every active operator *)
(* with a token (unless the mode is end-users-only; under a role filter    *)
(* only operators of that role), the end users before the operators, and   *)
(* no other entry.                                                         *)
(***************************************************************************)
C28_ModeFilter ==
    \A l \in fetched :
        store.raises = {} =>
            /\ Len(l) = Cardinality(ModeUsers(mode)) + Cardinality(ModeAdmins(mode))
            /\ \A d \in ModeUsers(mode) :
                  \E k \in DOMAIN l : /\ l[k].token = d.fcmToken
                                      /\ l[k].identifier = d.email
                                      /\ l[k].user_type = "user"
            /\ \A d \in ModeAdmins(mode) :
                  \E k \in DOMAIN l : /\ l[k].token = d.fcmToken
                                      /\ l[k].identifier = d.email
                                      /\ l[k].user_type \in {"admin (admin)", "admin (super_admin)"}
            /\ \A i, j \in DOMAIN l : (i < j /\ IsUserEntry(l[j])) => IsUserEntry(l[i])

C28_Witness ==
    /\ mode = [user_only |-> FALSE, admin_only |-> TRUE, admin_role_filter |-> {"super_admin"}]
    /\ Len(store.users) = 4 /\ Len(store.admins) = 4 /\ store.raises = {}
    /\ fetched = {<< [identifier |-> "a1@x", token |-> "tokA1",
                      user_type |-> "admin (super_admin)", shape |-> "tuple3"] >>}

(***************************************************************************)
(* C29 as stated: in one dispatch the statistics are written once for each *)
(* recipient, and once more after the pass over the recipients.            *)
(***************************************************************************)
C29_UpdateProtocol_AsStated ==
    [][/\ (send_pc = "loop" /\ idx' = idx + 1)
            => stats'.total_signals = stats.total_signals + 1
       /\ (send_pc = "loop" /\ send_pc' = "returned") => stats' # stats]_vars

(***************************************************************************)
(* C29: in one dispatch the statistics are written once for each           *)
(* recipient (one log_signal call, total_signals grows by one), and they   *)
(* are not written after the pass over the recipients: the aggregate is    *)
(* only printed and returned.                                              *)
(***************************************************************************)
C29_UpdateProtocol ==
    [][/\ (send_pc = "loop" /\ idx' = idx + 1)
            => stats'.total_signals = stats.total_signals + 1
       /\ (send_pc = "loop" /\ send_pc' = "returned") => stats' = stats]_vars

C29_Witness ==
    /\ send_pc = "returned"
    /\ Len(tokens) = 2 /\ Len(sent) = 2
    /\ stats.total_signals = stats_before.total_signals + 2
    /\ result # {} /\ TheResult.total = 2


(***************************************************************************)
(* The listener: message handling under the supervisor.                    *)
(***************************************************************************)
\* the operator's interrupt has ended the listener: as KeyboardInterrupt in
\* the coroutine, or as the cancellation of the coroutine by asyncio.run
Stopped(cause) == cause \in {"keyboard_interrupt", "cancelled"}

\* this step is one run of handle_new_message that ended (by return or by the
\* handler's except Exception)
HandlerStep ==
    arrived' = arrived /\ handled' # handled /\ last_run'.reached # "interrupted"

\* the run met an exception on its way: in the handler before or in the
\* interpreter, in a query of the recipient store, or in a send of the fan-out
FaultRun(r) ==
    \/ r.reached = "raised"
    \/ r.fetch_called /\ r.store.raises # {}
    \/ \E k \in 1..r.sends : r.port[r.tokens[k].token] # "ok"

\* C21: an exception raised while one message is handled stays in the handler:
\* the supervisor stays where it was, with the same client, the same handlers
\* registered and no retry counted.  A retryable failure of get_entity or
\* run_until_disconnected (timeout, server error, OS error, any other Exception)
\* closes the client and leads to the backoff sleep, or ends the loop only with
\* the retry ceiling reached; the backoff sleep, unless the operator stops the
\* listener during it, is followed by the next connect.
C21_FaultsContained ==
    [][ /\ ((HandlerStep /\ FaultRun(last_run'))
              => (/\ sup_pc' = sup_pc
                  /\ live_handlers' = live_handlers
                  /\ last_run'.by \in live_handlers'
                  /\ client' = client
                  /\ retry_count' = retry_count
                  /\ exit_cause' = exit_cause))
        /\ ((sup_pc \in {"subscribe", "listen"} /\ retry_count' = retry_count + 1)
              => (/\ last_failure'.cause \in Retryable
                  /\ client' = "closed"
                  /\ \/ sup_pc' = "backoff"
                     \/ (/\ sup_pc' = "exited"
                         /\ exit_cause' = "max_retries"
                         /\ retry_count' >= max_retries)))
        /\ ((sup_pc \in {"subscribe", "listen"} /\ last_failure' # last_failure
                /\ last_failure'.cause \in Retryable)
              => retry_count' = retry_count + 1)
        /\ ((sup_pc = "backoff" /\ sup_pc' # sup_pc /\ ~Stopped(exit_cause'))
              => sup_pc' = "connect")
      ]_vars

\* a message whose handling raised was handled while listening, the handler
\* stayed, and a later server error of run_until_disconnected was followed by
\* the backoff sleep and the next connect
C21_Witness ==
    /\ last_run.reached = "raised"
    /\ last_failure.at = "listen"
    /\ last_failure.cause = "ServerError"
    /\ sup_pc = "subscribe"
    /\ attempts = 2
    /\ Len(slept) = 0
    /\ waited = BaseDelay


\* this step is a run of handle_new_message, to its end or to an interrupt
AnyHandlerStep == arrived' = arrived /\ handled' # handled

C23_Cancellation ==
    /\ [](Stopped(exit_cause)
            => (/\ sup_pc = "exited"
                /\ live_handlers = {}
                /\ inbox = {}))
    /\ [][ /\ ((sup_pc = "listen" /\ Stopped(exit_cause'))
                 => (/\ summaries' = summaries + 1
                     /\ client' = "closed"
                     /\ sup_pc' = "exited"
                     /\ UNCHANGED <<attempts, slept, waited, retry_count>>))
           /\ (Stopped(exit_cause)
                 => UNCHANGED <<sup_pc, exit_cause, attempts, slept, waited, client,
                                summaries, handled, last_run, stats, live_handlers>>)
         ]_vars


\* C24: a fan-out that has begun is carried to its last recipient, and one
\* log_signal is made for each of them, whatever stops the listener meanwhile:
\* every run that reached the fan-out and got past its first recipient has
\* attempted and logged every recipient of its list.
C24_FanOutCompletes ==
    (last_run.reached \in {"dispatched", "interrupted"} /\ last_run.logged >= 1)
    => (/\ last_run.sends = Len(last_run.tokens)
        /\ last_run.logged = Len(last_run.tokens)
        /\ Counters(last_run.after)[1] = Counters(last_run.before)[1] + Len(last_run.tokens))


\* C25: whatever the order in which the waiting messages are handled, the
\* statistics are the initial ones plus what each run's fan-out logged,
\* recipient by recipient; every run starts from the statistics the run before
\* it left, and leaves them with its own log_signal calls applied in full.
C25_NoLostUpdates ==
    /\ [](/\ stats = ledger
          /\ last_run.after = Tally(last_run.before, last_run)
          /\ stats.total_signals = stats.successful_sends + stats.failed_sends
          /\ stats.successful_sends = stats.user_sends + stats.admin_sends
          /\ stats.total_signals
                 = stats.signals_by_trend["call"] + stats.signals_by_trend["put"])
    /\ [][ AnyHandlerStep
             => (/\ last_run'.before = stats
                 /\ stats' = last_run'.after
                 /\ stats' = Tally(stats, last_run'))
         ]_vars

\* two messages were waiting at the same time; the second was handled first,
\* both fan-outs logged their recipients
C25_Witness ==
    /\ handled = <<1, 1>>
    /\ last_run.id = 1
    /\ last_run.reached = "dispatched"
    /\ last_run.logged = 3
    /\ last_run.before.total_signals = 2
    /\ last_run.before.failed_sends = 0
    /\ stats.total_signals = 5
    /\ stats.failed_sends = 2


\* C26: a message whose text is absent or empty is never given to
\* parse_signal; a message for which parse_signal returned None causes no
\* query of the recipient store, no send and no change of the statistics; and
\* a run queries the store or sends only with the directive parse_signal
\* returned for the text and date of that message.
C26_Gating ==
    /\ [](/\ ((last_run.reached # "none" /\ last_run.text \in {{}, {<<>>}})
                => (/\ ~last_run.parse_called
                    /\ ~last_run.fetch_called
                    /\ last_run.sends = 0
                    /\ last_run.after = last_run.before))
          /\ (last_run.reached = "rejected"
                => (/\ last_run.parse_called
                    /\ last_run.directive = {}
                    /\ ~last_run.fetch_called
                    /\ last_run.tokens = <<>>
                    /\ last_run.sends = 0
                    /\ last_run.after = last_run.before))
          /\ ((last_run.fetch_called \/ last_run.sends > 0)
                => (/\ last_run.parse_called
                    /\ last_run.directive # {}
                    /\ \E t \in last_run.text :
                          last_run.directive = parse_signal(t, last_run.date))))
    /\ [][ (AnyHandlerStep /\ ~last_run'.fetch_called)
             => (stats' = stats /\ fetched' = fetched)
         ]_vars

\* two messages were handled, the later one with a text that is no signal,
\* and nothing was fetched or sent
C26_Witness ==
    /\ handled = <<1, 1>>
    /\ last_run.reached = "rejected"
    /\ last_run.text = {<<"x">>}
    /\ fetched = {}
    /\ stats = NewStatistics


\* the registration tokens of the documents of the store st that are active
\* and carry a token, a collection whose query fails counting as empty
EligibleTokens(st) ==
    (IF "whitelist_users" \in st.raises THEN {}
     ELSE {d.fcmToken : d \in WithToken(st.users)})
    \cup (IF "admin_users" \in st.raises THEN {}
          ELSE {d.fcmToken : d \in WithToken(st.admins)})

\* the tokens of a recipient list
TokensOf(l) == {l[k].token : k \in DOMAIN l}

\* C27: the recipient list of every fan-out is the result of a query made in
\* the run that handles that message: its tokens are those of the documents
\* eligible in the store as it is at that moment, whatever an earlier query
\* returned, and the fan-out attempts that list.
C27_FreshRecipients ==
    /\ [](last_run.fetch_called
            => (/\ TokensOf(last_run.tokens) = EligibleTokens(last_run.store)
                /\ fetched = {last_run.tokens}))
    /\ [][ (AnyHandlerStep /\ last_run'.fetch_called)
             => (/\ last_run'.store = store
                 /\ TokensOf(last_run'.tokens) = EligibleTokens(store)
                 /\ (last_run'.reached = "dispatched"
                       => last_run'.sends = Len(last_run'.tokens)))
         ]_vars

\* between two directives the operator a1@x was removed from the store and
\* the user without email and the operator a2@x were added: the first fan-out
\* went to u1@x and a1@x, the second to u1@x, the new user and a2@x
C27_Witness ==
    /\ handled = <<1, 1>>
    /\ last_run.id = 2
    /\ last_run.reached = "dispatched"
    /\ last_run.before.total_signals = 2
    /\ "a1@x" \in last_run.before.devices_reached
    /\ TokensOf(last_run.tokens) = {"tokU1", "tokU4", "tokA2"}
    /\ last_run.sends = 3
    /\ "a2@x" \in stats.devices_reached


\* C30: the statistics change only in a run of the handler whose fan-out
\* logged at least one recipient, and then by exactly what that fan-out
\* logged; connecting, subscribing, failures, sleeps, the summaries printed at
\* the exits, runs that end before the fan-out and changes of the store leave
\* them as they are.  No counter ever decreases and no identifier ever leaves
\* devices_reached (Statistics.reset is called nowhere).
C30_StatsLifecycle ==
    [][ /\ (stats' # stats
              => (/\ AnyHandlerStep
                  /\ last_run'.logged >= 1
                  /\ last_run'.directive # {}
                  /\ stats' = Tally(stats, last_run')))
        /\ \A n \in 1..7 : Counters(stats')[n] >= Counters(stats)[n]
        /\ stats.devices_reached \subseteq stats'.devices_reached
      ]_vars

\* a fan-out of three on the first client, a failure and the backoff sleep, a
\* fan-out of two on the second client, and a second failure: the statistics
\* hold all five
C30_Witness ==
    /\ attempts = 2
    /\ sup_pc = "backoff"
    /\ handled = <<1, 1>>
    /\ last_run.by = 2
    /\ last_run.logged = 2
    /\ last_run.before.total_signals = 3
    /\ stats.total_signals = 5
    /\ Cardinality(stats.devices_reached) >= 3


(***************************************************************************)
(* The notification payload.                                               *)
(***************************************************************************)
\* the dict fcm_data of the running call
TheData == CHOOSE d \in fcm_data : TRUE

\* the text is a decimal numeral of n (0 <= n <= 99) without padding
IsPlainNumeralOf(t, n) ==
    /\ Len(t) = (IF n < 10 THEN 1 ELSE 2)
    /\ \A k \in 1..Len(t) : IsDigit(t[k])
    /\ Numeral(t, 1, Len(t)) = n

\* C31: in one call every Message built carries the same data, which is the
\* dict built before the loop (one timestamp for all of them); its trend is the
\* directive's, its hour, minute and second are the directive's numbers as
\* decimal text, formatted_message is HH:MM:SS, a blank and B for call or S
\* otherwise, auto_time_added is "true" exactly for an inferred time, and every
\* Message has a time-to-live of 60 seconds and formatted_message as its body.
C31_UniformPayload ==
    /\ (messages # <<>> => fcm_data # {})
    /\ Len(messages) = Len(sent)
    /\ \A k \in 1..Len(messages) :
          /\ messages[k].data = TheData
          /\ messages[k].token = tokens[k].token
          /\ messages[k].ttl = 60
          /\ messages[k].body = TheData.formatted_message
    /\ fcm_data # {}
         => /\ TheData.trend = signal_data.trend
            /\ TheData.timestamp \in DispatchInstants
            /\ IsPlainNumeralOf(TheData.hour, signal_data.hour.v)
            /\ IsPlainNumeralOf(TheData.minute, signal_data.minute.v)
            /\ IsPlainNumeralOf(TheData.second, signal_data.second.v)
            /\ TheData.original_message = signal_data.original_message
            /\ (TheData.auto_time_added = "true") = signal_data.auto_time_added
            /\ TheData.auto_time_added \in {"true", "false"}
            /\ LET f == TheData.formatted_message
               IN  /\ Len(f) = 10
                   /\ \A k \in {1, 2, 4, 5, 7, 8} : IsDigit(f[k])
                   /\ Numeral(f, 1, 2) = signal_data.hour.v
                   /\ Numeral(f, 4, 2) = signal_data.minute.v
                   /\ Numeral(f, 7, 2) = signal_data.second.v
                   /\ f[3] = ":" /\ f[6] = ":" /\ f[9] = " "
                   /\ (f[10] = "B") = (signal_data.trend = "call")
                   /\ f[10] \in {"B", "S"}

\* a put directive for 23:59:30 was sent to three recipients, the second of
\* them unregistered
C31_Witness ==
    /\ send_pc = "returned"
    /\ Len(messages) = 3
    /\ signal_data.trend = "put"
    /\ signal_data.hour.v = 23
    /\ port[2] = "unregistered"
    /\ messages[3].data.formatted_message
           = <<"2", "3", ":", "5", "9", ":", "3", "0", " ", "S">>
    /\ messages[1].data.timestamp = messages[3].data.timestamp


\* C32: at every moment of every sequence of dispatches that starts from
\* Statistics(), between two log_signal calls as well as after the last:
\* total_signals = successful_sends + failed_sends, successful_sends =
\* user_sends + admin_sends, devices_reached has at most successful_sends
\* members, and the call and put counts add up to total_signals (every trend
\* logged being call or put; a failed attempt counts for its trend too).
C32_StatsConsistent ==
    /\ stats.total_signals = stats.successful_sends + stats.failed_sends
    /\ stats.successful_sends = stats.user_sends + stats.admin_sends
    /\ Cardinality(stats.devices_reached) <= stats.successful_sends
    /\ stats.signals_by_trend["call"] + stats.signals_by_trend["put"] = stats.total_signals
    /\ \A k \in 1..Len(calls) : calls[k].signal_data.trend \in {"call", "put"}
    /\ stats.failed_sends >= 0 /\ stats.user_sends >= 0 /\ stats.admin_sends >= 0

\* two calls for a put directive, to the same address as end user and as
\* operator and to one more recipient whose send fails: four successes on one
\* address, two failures, six put
C32_Witness ==
    /\ send_pc = "returned"
    /\ Len(calls) = 2
    /\ stats.successful_sends = 4
    /\ stats.failed_sends = 2
    /\ stats.user_sends = 2 /\ stats.admin_sends = 2
    /\ stats.devices_reached = {"a@x"}
    /\ stats.signals_by_trend["put"] = 6


\* C33: every returned result has success + failed = total and user_success +
\* admin_success = success, its total is 0 or the length of the list, and the
\* log_signal calls of the call are success + failed in number, whatever the
\* entries of the list are.
C33_ResultConsistent ==
    \A k \in 1..Len(calls) :
        LET c == calls[k]
        IN  /\ c.result.success + c.result.failed = c.result.total
            /\ c.result.user_success + c.result.admin_success = c.result.success
            /\ c.result.total \in {0, Len(c.tokens)}
            /\ c.after.total_signals - c.before.total_signals
                   = c.result.success + c.result.failed

SecondOfDay(t) == (t.hour * 60 + t.minute) * 60 + t.second

\* seconds from the arrival's local time to the scheduled time, modulo one day
Lead == (SecondOfDay(TheParsed) - SecondOfDay(ArrivalLocal)) % 86400

(***************************************************************************)
(* C34: the execution instant inferred for a bare trend arriving at local  *)
(* second s lies strictly after the arrival, between 30 and 89 seconds     *)
(* later modulo 24 hours (60 - s when s <= 30, 120 - s when s > 30), and   *)
(* always on a minute boundary.                                            *)
(***************************************************************************)
C34_LeadTime ==
    (/\ pc = "done"
     /\ message_text \in BareTexts
     /\ message_time # {})
    => /\ parsed # {}
       /\ TheParsed.second = 0
       /\ Lead > 0
       /\ Lead \in 30..89
       /\ Lead = (IF ArrivalLocal.second <= 30 THEN 60 - ArrivalLocal.second
                                                ELSE 120 - ArrivalLocal.second)

C34_Witness ==
    /\ pc = "done"
    /\ message_text = <<"B">>
    /\ message_time = {[hour |-> 16, minute |-> 58, second |-> 31]}
    /\ parsed # {}
    /\ TheParsed.hour = 0 /\ TheParsed.minute = 0 /\ TheParsed.second = 0
    /\ Lead = 89

(***************************************************************************)
(* C35: retry_count and retry_delay are back at 0 and 5 seconds as soon as *)
(* client.start() returns, before get_entity is awaited.  As long as no    *)
(* connect fails last, in particular in a run where every connect succeeds *)
(* and every subscribe fails with a retryable cause, retry_count is at     *)
(* most 1 and every backoff sleep lasts 5 seconds.                         *)
(***************************************************************************)
C35_ResetOnConnect ==
    /\ [](/\ (sup_pc = "subscribe" => retry_count = 0 /\ retry_delay = BaseDelay)
          /\ (last_failure.at # "start" =>
                 /\ retry_count <= 1
                 /\ (sup_pc = "backoff" => retry_count = 1 /\ retry_delay = BaseDelay)
                 /\ \A k \in 1..Len(slept) :
                        slept[k].kind = "backoff" => slept[k].seconds = BaseDelay))
    /\ [][(sup_pc = "connect" /\ sup_pc' = "subscribe")
            => (retry_count' = 0 /\ retry_delay' = BaseDelay)]_vars

\* the third attempt in a row has failed, at get_entity, and the loop is about
\* to sleep
C35_Witness ==
    /\ sup_pc = "backoff"
    /\ attempts = 3
    /\ failed_run = 3
    /\ last_failure.at = "subscribe"
    /\ last_failure.cause \in Retryable
    /\ retry_count = 1
    /\ retry_delay = BaseDelay

(***************************************************************************)
(* C36: when run_until_disconnected returns without raising, the loop goes *)
(* straight to the next connect attempt: no backoff sleep, no increment of *)
(* retry_count, no summary and no exit.  A run made of such returns only   *)
(* never sleeps, keeps retry_count at 0 and is never ended by the loop     *)
(* itself, however often the return repeats.                               *)
(***************************************************************************)
C36_CleanReturn ==
    /\ [](last_failure = NoFailure =>
             /\ retry_count = 0
             /\ waited = 0
             /\ slept = <<>>
             /\ sup_pc \notin {"backoff", "flood_sleep"}
             /\ (sup_pc = "exited" => exit_cause \in {"keyboard_interrupt", "cancelled"}))
    /\ [][(sup_pc = "listen" /\ sup_pc' = "connect")
            => /\ last_failure' = last_failure
               /\ exit_cause' = exit_cause
               /\ retry_count' = retry_count
               /\ retry_delay' = retry_delay
               /\ attempts' = attempts
               /\ slept' = slept
               /\ waited' = waited
               /\ summaries' = summaries]_vars

\* the connection has ended by itself three times and the fourth attempt is due
C36_Witness ==
    /\ sup_pc = "connect"
    /\ attempts = 3
    /\ last_failure = NoFailure
    /\ client = "closed"
    /\ retry_count = 0
    /\ slept = <<>>
    /\ exit_cause = "none"

(***************************************************************************)
(* What the statements about fetching and dispatching speak of.            *)
(***************************************************************************)
\* the query of the collection cannot be answered: it raises, or the store
\* has no client
UsersDown == ~store.db \/ "whitelist_users" \in store.raises

AdminsDown == ~store.db \/ "admin_users" \in store.raises

\* the dispatch of the fetched list has returned without a send, with the
\* all-zero result and the statistics as they were
NoOpDispatch ==
    /\ result = {ZeroResult}
    /\ sent = <<>>
    /\ messages = <<>>
    /\ stats = NewStatistics
    /\ Len(calls) = 1 /\ calls[1].after = calls[1].before

(***************************************************************************)
(* C37: a failure of the store stays within its recipient class and the    *)
(* fetch always returns a list: when the end users cannot be read the list *)
(* still holds the operators the mode addresses, and the other way round;  *)
(* when neither can be read, or the store has no client, the list is empty *)
(* and its dispatch returns the all-zero result without a send and without *)
(* touching the statistics.  No entry carries an empty or blank token.     *)
(***************************************************************************)
C37_StoreFaultsIsolated ==
    /\ \A l \in fetched :
          /\ (UsersDown /\ ~AdminsDown) =>
                 /\ TokensOf(l) = {d.fcmToken : d \in ModeAdmins(mode)}
                 /\ Len(l) = Cardinality(ModeAdmins(mode))
                 /\ \A k \in DOMAIN l : ~IsUserEntry(l[k])
          /\ (AdminsDown /\ ~UsersDown) =>
                 /\ TokensOf(l) = {d.fcmToken : d \in ModeUsers(mode)}
                 /\ Len(l) = Cardinality(ModeUsers(mode))
                 /\ \A k \in DOMAIN l : IsUserEntry(l[k])
          /\ (UsersDown /\ AdminsDown) => l = <<>>
          /\ \A k \in DOMAIN l : l[k].token \notin {"", " "}
    /\ (send_pc # "idle" /\ UsersDown /\ AdminsDown) => (send_pc = "returned" /\ NoOpDispatch)

\* the query of whitelist_users raises; the two operators with a token are
\* fetched and both are sent the directive
C37_Witness ==
    /\ store.db /\ store.raises = {"whitelist_users"}
    /\ Len(store.users) = 4 /\ Len(store.admins) = 4
    /\ mode = [user_only |-> FALSE, admin_only |-> FALSE, admin_role_filter |-> {}]
    /\ \E l \in fetched : TokensOf(l) = {"tokA1", "tokA2"}
    /\ send_pc = "returned"
    /\ result # {} /\ TheResult.success = 2 /\ TheResult.total = 2

====
